---- MODULE Spec2Model ----
(***************************************************************************)
(* A model of paco (src/app): the chat turn of ai.py (response extraction, *)
(* reconciliation against the SQLite store of database.py, session         *)
(* titling) and the store operations it calls.                             *)
(*                                                                         *)
(* Texts are TLA+ strings handled character by character (Len, SubSeq,     *)
(* \o), so the regular expressions of process_response, Python's strip /   *)
(* split / lower / float and SQLite's LIKE are computed as the code        *)
(* computes them.  Python's None is the empty tuple <<>> and a present     *)
(* value v is <<v>>.  A float is the exact decimal it was parsed from:     *)
(* [ip |-> integer part, fp |-> fraction digits without trailing zeros];   *)
(* binary rounding of doubles is not modelled.                             *)
(***************************************************************************)
EXTENDS Integers, Sequences, FiniteSets, TLC

VARIABLES db, pre, last, turns, auth

vars == <<db, pre, last, turns, auth>>

(***************************************************************************)
(* Strings                                                                 *)
(***************************************************************************)
None == <<>>

Some(v) == <<v>>

\* a function with the value v at key k
Put(f, k, v) == [x \in DOMAIN f \cup {k} |-> IF x = k THEN v ELSE f[x]]

\* del f[k]
Del(f, k) == [x \in DOMAIN f \ {k} |-> f[x]]

Ch(s, i) == SubSeq(s, i, i)

\* Python's str.isspace / the regex class \s, on the characters used here
IsSpace(c) == c \in {" ", "\n", "\t", "\r"}

IsDigit(c) == c \in {"0", "1", "2", "3", "4", "5", "6", "7", "8", "9"}

\* the regex class [\d.]
IsNumCh(c) == IsDigit(c) \/ c = "."

DigitVal(c) ==
    CASE c = "0" -> 0 [] c = "1" -> 1 [] c = "2" -> 2 [] c = "3" -> 3
      [] c = "4" -> 4 [] c = "5" -> 5 [] c = "6" -> 6 [] c = "7" -> 7
      [] c = "8" -> 8 [] c = "9" -> 9

UpperLetters == "ABCDEFGHIJKLMNOPQRSTUVWXYZ"

LowerLetters == "abcdefghijklmnopqrstuvwxyz"

LowerCh(c) ==
    LET at == {i \in 1..Len(UpperLetters) : Ch(UpperLetters, i) = c}
    IN IF at = {} THEN c ELSE Ch(LowerLetters, CHOOSE i \in at : TRUE)

\* str.lower() and SQLite's LOWER(), which agree on ASCII
RECURSIVE Lower(_)
Lower(s) ==
    IF Len(s) = 0 THEN ""
    ELSE IF Len(s) = 1 THEN LowerCh(s)
    ELSE LET h == Len(s) \div 2
         IN Lower(SubSeq(s, 1, h)) \o Lower(SubSeq(s, h + 1, Len(s)))

MinOf(S) == CHOOSE x \in S : \A y \in S : x <= y

MaxOf(S) == CHOOSE x \in S : \A y \in S : x >= y

\* str.strip()
Strip(s) ==
    LET ink == {i \in 1..Len(s) : ~IsSpace(Ch(s, i))}
    IN IF ink = {} THEN "" ELSE SubSeq(s, MinOf(ink), MaxOf(ink))

StartsWithAt(s, pos, lit) ==
    /\ pos + Len(lit) - 1 <= Len(s)
    /\ SubSeq(s, pos, pos + Len(lit) - 1) = lit

\* Python's `needle in hay`
Contains(hay, needle) == \E i \in 1..(Len(hay) + 1) : StartsWithAt(hay, i, needle)

\* str.split(sep) for a one-character separator: the pieces between the
\* separators, of which the k-th is the one with k - 1 separators before it
Split(s, sep) ==
    LET at == {i \in 1..Len(s) : Ch(s, i) = sep}
        cut(k) == IF k = 0 THEN 0
                  ELSE IF k > Cardinality(at) THEN Len(s) + 1
                  ELSE CHOOSE i \in at : Cardinality({j \in at : j < i}) = k - 1
    IN [k \in 1..(Cardinality(at) + 1) |-> SubSeq(s, cut(k - 1) + 1, cut(k) - 1)]

\* str.split(): the whitespace-separated words
Words(s) ==
    LET first == {i \in 1..Len(s) :
                    ~IsSpace(Ch(s, i)) /\ (i = 1 \/ IsSpace(Ch(s, i - 1)))}
        final == {i \in 1..Len(s) :
                    ~IsSpace(Ch(s, i)) /\ (i = Len(s) \/ IsSpace(Ch(s, i + 1)))}
        kth(S, k) == CHOOSE i \in S : Cardinality({j \in S : j < i}) = k - 1
    IN [k \in 1..Cardinality(first) |-> SubSeq(s, kth(first, k), kth(final, k))]

\* ' '.join(words)
RECURSIVE JoinSp(_)
JoinSp(ws) ==
    IF ws = <<>> THEN ""
    ELSE IF Len(ws) = 1 THEN ws[1]
    ELSE ws[1] \o " " \o JoinSp(Tail(ws))

(***************************************************************************)
(* float(): the text is a run of [\d.]; it is a float literal when it has  *)
(* at most one point and at least one digit, else float raises ValueError  *)
(***************************************************************************)
CountCh(s, c) == Cardinality({i \in 1..Len(s) : Ch(s, i) = c})

RECURSIVE DigitsVal(_, _)
DigitsVal(s, acc) ==
    IF s = "" THEN acc ELSE DigitsVal(Tail(s), acc * 10 + DigitVal(Head(s)))

StripZerosRight(s) ==
    LET nz == {i \in 1..Len(s) : Ch(s, i) # "0"}
    IN IF nz = {} THEN "" ELSE SubSeq(s, 1, MaxOf(nz))

IsFloatLiteral(s) == CountCh(s, ".") <= 1 /\ Len(s) > CountCh(s, ".")

FloatValue(s) ==
    LET parts == Split(s, ".")
    IN [ip |-> DigitsVal(parts[1], 0),
        fp |-> IF Len(parts) > 1 THEN StripZerosRight(parts[2]) ELSE ""]

(***************************************************************************)
(* Regular expressions (re, with re.DOTALL).  A pattern is a sequence of   *)
(* elements, matched by backtracking in the priority order of Python's re: *)
(*   lit s     the literal s                                               *)
(*   ws        \s*           greedy                                        *)
(*   lazy g    (.+?)         group g, shortest first                       *)
(*   num g     ([\d.]+)      group g, longest first                        *)
(*   optlit s  s?            greedy                                        *)
(*   opt sub   (?:sub)?      greedy                                        *)
(***************************************************************************)
Lit(s) == [t |-> "lit", s |-> s]

Ws == [t |-> "ws"]

Lazy(g) == [t |-> "lazy", g |-> g]

Num(g) == [t |-> "num", g |-> g]

OptLit(s) == [t |-> "optlit", s |-> s]

Opt(sub) == [t |-> "opt", sub |-> sub]

NoCaps == [g \in 1..4 |-> None]

NoMatch == [ok |-> FALSE, end |-> 0, caps |-> NoCaps]

\* the length of the run of whitespace (of [\d.]) that starts at pos
RECURSIVE SpaceRun(_, _)
SpaceRun(text, pos) ==
    IF pos <= Len(text) /\ IsSpace(Ch(text, pos)) THEN 1 + SpaceRun(text, pos + 1) ELSE 0

RECURSIVE NumRun(_, _)
NumRun(text, pos) ==
    IF pos <= Len(text) /\ IsNumCh(Ch(text, pos)) THEN 1 + NumRun(text, pos + 1) ELSE 0

SetCap(caps, g, text, pos, k) ==
    IF g = 0 THEN caps ELSE [caps EXCEPT ![g] = Some(SubSeq(text, pos, pos + k - 1))]

\* whether pat, up to its first group, matches at pos: what any match of
\* pat at pos needs
RECURSIVE CanStart(_, _, _)
CanStart(pat, text, pos) ==
    IF pat = <<>> THEN TRUE
    ELSE LET e == Head(pat)
             rest == Tail(pat)
         IN CASE e.t = "lit" ->
                   StartsWithAt(text, pos, e.s) /\ CanStart(rest, text, pos + Len(e.s))
              [] e.t = "ws" ->
                   \E k \in 0..SpaceRun(text, pos) : CanStart(rest, text, pos + k)
              [] e.t = "optlit" ->
                   \/ StartsWithAt(text, pos, e.s) /\ CanStart(rest, text, pos + Len(e.s))
                   \/ CanStart(rest, text, pos)
              [] e.t = "opt" ->
                   CanStart(e.sub \o rest, text, pos) \/ CanStart(rest, text, pos)
              [] e.t = "num" -> pos <= Len(text) /\ IsNumCh(Ch(text, pos))
              [] e.t = "lazy" -> pos <= Len(text)

\* of the attempts [k, r] (length k taken, result r of the rest): the
\* result of the successful one with the least (greatest) k, else NoMatch
Shortest(tries) ==
    LET good == {t \in tries : t.r.ok}
    IN IF good = {} THEN NoMatch ELSE (CHOOSE t \in good : \A u \in good : t.k <= u.k).r

Longest(tries) ==
    LET good == {t \in tries : t.r.ok}
    IN IF good = {} THEN NoMatch ELSE (CHOOSE t \in good : \A u \in good : t.k >= u.k).r

\* the first alternative if it matched, else the second
OrElse(first, second) == IF first.ok THEN first ELSE second

RECURSIVE MatchAt(_, _, _, _)
RECURSIVE Tries(_, _, _, _, _, _)

\* a repetition (group g, 0 for none) that can take the lengths lens at pos:
\* for each length after which rest can start, the match of rest
Tries(rest, text, pos, caps, g, lens) ==
    {[k |-> k, r |-> MatchAt(rest, text, pos + k, SetCap(caps, g, text, pos, k))] :
        k \in {j \in lens : CanStart(rest, text, pos + j)}}

\* the first match of pat at pos, in priority order; end is the position
\* after the match.  A repetition takes, among the lengths with which the
\* rest of the pattern matches, the shortest (lazy) or the longest (greedy).
MatchAt(pat, text, pos, caps) ==
    IF pat = <<>> THEN [ok |-> TRUE, end |-> pos, caps |-> caps]
    ELSE LET e == Head(pat)
             rest == Tail(pat)
         IN CASE e.t = "lit" ->
                   IF StartsWithAt(text, pos, e.s)
                   THEN MatchAt(rest, text, pos + Len(e.s), caps)
                   ELSE NoMatch
              [] e.t = "lazy" ->
                   Shortest(Tries(rest, text, pos, caps, e.g, 1..(Len(text) - pos + 1)))
              [] e.t = "ws" ->
                   Longest(Tries(rest, text, pos, caps, 0, 0..SpaceRun(text, pos)))
              [] e.t = "num" ->
                   Longest(Tries(rest, text, pos, caps, e.g, 1..NumRun(text, pos)))
              [] e.t = "optlit" ->
                   OrElse(IF StartsWithAt(text, pos, e.s)
                          THEN MatchAt(rest, text, pos + Len(e.s), caps)
                          ELSE NoMatch,
                          MatchAt(rest, text, pos, caps))
              [] e.t = "opt" ->
                   OrElse(MatchAt(e.sub \o rest, text, pos, caps),
                          MatchAt(rest, text, pos, caps))

\* a match as re.search returns it: None when there is none
AsOption(m) == IF m.ok THEN Some(m) ELSE None

\* re.search from start: the leftmost match, or None
SearchFrom(pat, text, start) ==
    AsOption(Shortest({[k |-> i, r |-> MatchAt(pat, text, i, NoCaps)] :
                          i \in {j \in start..Len(text) : CanStart(pat, text, j)}}))

RECURSIVE FindIter(_, _, _)
RECURSIVE FindNext(_, _, _)

\* the groups of the match m and of the matches after it
FindNext(pat, text, m) ==
    IF m = None THEN <<>> ELSE <<m[1].caps>> \o FindIter(pat, text, m[1].end)

\* re.finditer: the groups of the non-overlapping matches, left to right
FindIter(pat, text, start) == FindNext(pat, text, SearchFrom(pat, text, start))

\* the groups of a match, or None
CapsOf(m) == IF m = None THEN None ELSE Some(m[1].caps)

\* re.search: the groups of the leftmost match, or None
Search(pat, text) == CapsOf(SearchFrom(pat, text, 1))

\* `m.group(g).strip() if m.group(g) else None`
StripOpt(cap) == IF cap # None /\ cap[1] # "" THEN Some(Strip(cap[1])) ELSE None

(***************************************************************************)
(* ai.py: process_response                                                 *)
(***************************************************************************)
client_pattern ==
    <<Lit("[CLIENTE NUEVO]"), Ws, Lit("Nombre:"), Ws, Lazy(1), Ws,
      Opt(<<Lit("Teléfono:"), Ws, Lazy(2), Ws>>),
      Opt(<<Lit("Dirección:"), Ws, Lazy(3), Ws>>),
      Opt(<<Lit("Notas:"), Ws, Lazy(4), Ws>>),
      Lit("[FIN CLIENTE]")>>

client_msg_pattern ==
    <<Lit("[MENSAJE PARA CLIENTE: "), Lazy(1), Lit("]"), Ws, Lazy(2), Ws,
      Lit("[FIN MENSAJE]")>>

\* a variant that takes a service block without its opening tag
service_pattern_unopened ==
    <<Lit("Cliente: "), Lazy(1), Ws,
      Lit("Servicio: "), Lazy(2), Ws, Lit("Precio: "), OptLit("$"), Num(3), Ws,
      Lit("[FIN SERVICIO]")>>

service_pattern ==
    <<Lit("[SERVICIO REGISTRADO]"), Ws, Lit("Cliente: "), Lazy(1), Ws,
      Lit("Servicio: "), Lazy(2), Ws, Lit("Precio: "), OptLit("$"), Num(3), Ws,
      Lit("[FIN SERVICIO]")>>

proposal_pattern ==
    <<Lit("[PROPUESTA]"), Ws, Lit("Cliente:"), Ws, Lazy(1), Ws,
      Lit("Servicios:"), Ws, Lazy(2), Ws, Lit("Total:"), Ws, OptLit("$"), Num(3), Ws,
      Opt(<<Lit("Notas:"), Ws, Lazy(4), Ws>>),
      Lit("[FIN PROPUESTA]")>>

price_pattern == <<OptLit("$"), Num(1)>>

\* the dict appended for one match of client_pattern
NewClientOf(m) ==
    [name |-> Strip(m[1][1]), phone |-> StripOpt(m[2]),
     address |-> StripOpt(m[3]), notes |-> StripOpt(m[4])]

ClientMessageOf(m) == [client_name |-> Strip(m[1][1]), message |-> Strip(m[2][1])]

\* float(m.group(3).strip()) raises ValueError on a run that is no literal
ServiceRaises(m) == ~IsFloatLiteral(Strip(m[3][1]))

ServiceOf(m) ==
    [client_name |-> Strip(m[1][1]), description |-> Strip(m[2][1]),
     price |-> FloatValue(Strip(m[3][1]))]

\* one line of the services text of a proposal: <<>> when the line is
\* skipped, else the price text found after the first colon
ItemPriceText(line0) ==
    LET line == Strip(line0)
    IN IF ~StartsWithAt(line, 1, "-") THEN None
       ELSE LET parts == Split(Strip(Tail(line)), ":")
            IN IF Len(parts) < 2 THEN None
               ELSE LET pm == Search(price_pattern, parts[2])
                    IN IF pm = None THEN None ELSE pm[1][1]

ItemName(line0) == Strip(Split(Strip(Tail(Strip(line0))), ":")[1])

RECURSIVE ItemsRaise(_)
ItemsRaise(lines) ==
    IF lines = <<>> THEN FALSE
    ELSE LET pt == ItemPriceText(Head(lines))
         IN (pt # None /\ ~IsFloatLiteral(pt[1])) \/ ItemsRaise(Tail(lines))

RECURSIVE ItemsOf(_)
ItemsOf(lines) ==
    IF lines = <<>> THEN <<>>
    ELSE LET pt == ItemPriceText(Head(lines))
         IN (IF pt = None THEN <<>>
             ELSE <<[description |-> ItemName(Head(lines)),
                     price |-> FloatValue(pt[1])]>>)
            \o ItemsOf(Tail(lines))

ProposalLines(m) == Split(Strip(m[2][1]), "\n")

ProposalRaises(m) ==
    ItemsRaise(ProposalLines(m)) \/ ~IsFloatLiteral(Strip(m[3][1]))

ProposalOf(m) ==
    [client_name |-> Strip(m[1][1]), services |-> ItemsOf(ProposalLines(m)),
     total |-> FloatValue(Strip(m[3][1])), notes |-> StripOpt(m[4])]

\* the result for the matches cm, mm, sm, pm of the four patterns; raised:
\* a ValueError left the function
ResultOf(response_text, cm, mm, sm, pm) ==
    IF \/ \E i \in 1..Len(sm) : ServiceRaises(sm[i])
       \/ \E i \in 1..Len(pm) : ProposalRaises(pm[i])
    THEN [raised |-> TRUE, text |-> response_text, new_clients |-> <<>>,
          client_messages |-> <<>>, services |-> <<>>, proposals |-> <<>>]
    ELSE [raised |-> FALSE, text |-> response_text,
          new_clients |-> [i \in 1..Len(cm) |-> NewClientOf(cm[i])],
          client_messages |-> [i \in 1..Len(mm) |-> ClientMessageOf(mm[i])],
          services |-> [i \in 1..Len(sm) |-> ServiceOf(sm[i])],
          proposals |-> [i \in 1..Len(pm) |-> ProposalOf(pm[i])]]

process_response(response_text) ==
    ResultOf(response_text,
             FindIter(client_pattern, response_text, 1),
             FindIter(client_msg_pattern, response_text, 1),
             FindIter(service_pattern, response_text, 1),
             FindIter(proposal_pattern, response_text, 1))

(***************************************************************************)
(* database.py.  The store db is a record of tables; a table is the        *)
(* sequence of its rows in rowid order, and db.seq holds each table's      *)
(* AUTOINCREMENT counter, so that the id of a deleted row is never used    *)
(* again.  A SELECT without ORDER BY scans a table in rowid order, so      *)
(* fetchone() yields the matching row with the least id.  db.now is the    *)
(* clock CURRENT_TIMESTAMP reads, in seconds.  Of the columns, those the   *)
(* modelled operations read or write are kept.  db.pdfs is the directory   *)
(* data/invoices: the PDF files in it, by the number in their name.        *)
(***************************************************************************)
\* init_db on a fresh file
EmptyDb ==
    [clients |-> <<>>, services |-> <<>>, price_book |-> <<>>,
     client_messages |-> <<>>, proposals |-> <<>>, invoices |-> <<>>,
     chat_sessions |-> <<>>, conversation_memory |-> <<>>, pdfs |-> <<>>,
     seq |-> [clients |-> 0, services |-> 0, price_book |-> 0, client_messages |-> 0,
              proposals |-> 0, invoices |-> 0, chat_sessions |-> 0,
              conversation_memory |-> 0],
     now |-> 0]

\* fetchone() on the rows a WHERE clause keeps (SelectSeq), in rowid order
FetchOne(rows) == IF rows = <<>> THEN None ELSE Some(rows[1])

\* the positions of the text s that a LIKE pattern can have consumed after
\* one more pattern character pc, from the positions in S
LikeStep(S, pc, s) ==
    IF pc = "%" THEN {j \in 0..Len(s) : \E i \in S : i <= j}
    ELSE {j \in 1..Len(s) : (j - 1) \in S /\ (pc = "_" \/ Ch(s, j) = pc)}

RECURSIVE LikeFrom(_, _, _)
LikeFrom(S, pat, s) ==
    IF pat = "" THEN Len(s) \in S ELSE LikeFrom(LikeStep(S, Head(pat), s), Tail(pat), s)

\* SQLite's `s LIKE pat` (% any run, _ any one character) on lowered text
Like(s, pat) == LikeFrom({0}, pat, s)

\* LOWER(col) LIKE LOWER('%' || fragment || '%')
LikeContains(col, fragment) == Like(Lower(col), Lower("%" \o fragment \o "%"))

\* a variant that finds a client by its exact name only
get_client_by_name_exact(d, name) ==
    LET hits(c) == c.name = name
    IN FetchOne(SelectSeq(d.clients, hits))

get_client_by_name(d, name) ==
    LET hits(c) == LikeContains(c.name, name)
    IN FetchOne(SelectSeq(d.clients, hits))

get_client(d, client_id) ==
    LET hits(c) == c.id = client_id
    IN FetchOne(SelectSeq(d.clients, hits))

\* a variant that stores phone and address in each other's column
create_client_swapped(d, name, phone, email, address, language, notes) ==
    LET id == d.seq.clients + 1
    IN [d EXCEPT !.clients = Append(@, [id |-> id, name |-> name, phone |-> address,
                                        email |-> email, address |-> phone,
                                        language |-> language, preferences |-> None,
                                        notes |-> notes]),
                 !.seq.clients = id]

\* a variant that stores no second client of a name
create_client_unique(d, name, phone, email, address, language, notes) ==
    LET id == d.seq.clients + 1
    IN IF \E i \in 1..Len(d.clients) : d.clients[i].name = name THEN d
       ELSE [d EXCEPT !.clients = Append(@, [id |-> id, name |-> name, phone |-> phone,
                                             email |-> email, address |-> address,
                                             language |-> language, preferences |-> None,
                                             notes |-> notes]),
                      !.seq.clients = id]

create_client(d, name, phone, email, address, language, notes) ==
    LET id == d.seq.clients + 1
    IN [d EXCEPT !.clients = Append(@, [id |-> id, name |-> name, phone |-> phone,
                                        email |-> email, address |-> address,
                                        language |-> language, preferences |-> None,
                                        notes |-> notes]),
                 !.seq.clients = id]

add_service(d, client_id, description, price) ==
    LET id == d.seq.services + 1
    IN [d EXCEPT !.services = Append(@, [id |-> id, client_id |-> client_id,
                                         description |-> description, price |-> price,
                                         invoiced |-> FALSE, invoice_id |-> None]),
                 !.seq.services = id]

get_price(d, service_type) ==
    LET hits(p) == LikeContains(p.service_type, service_type)
    IN FetchOne(SelectSeq(d.price_book, hits))

\* a variant that adds an entry even when one is found
set_price_insert_always(d, service_type, price) ==
    LET id == d.seq.price_book + 1
    IN [d EXCEPT !.price_book = Append(@, [id |-> id, service_type |-> service_type,
                                           default_price |-> price,
                                           times_used |-> 1]),
                 !.seq.price_book = id]

\* a variant that leaves the price of the entry it finds
set_price_keeps_price(d, service_type, price) ==
    LET existing == get_price(d, service_type)
    IN IF existing # None
       THEN [d EXCEPT !.price_book =
                [i \in 1..Len(@) |->
                    IF @[i].id = existing[1].id
                    THEN [@[i] EXCEPT !.times_used = @ + 1] ELSE @[i]]]
       ELSE set_price_insert_always(d, service_type, price)

set_price(d, service_type, price) ==
    LET existing == get_price(d, service_type)
        id == d.seq.price_book + 1
    IN IF existing # None
       THEN [d EXCEPT !.price_book =
                [i \in 1..Len(@) |->
                    IF @[i].id = existing[1].id
                    THEN [@[i] EXCEPT !.default_price = price, !.times_used = @ + 1]
                    ELSE @[i]]]
       ELSE [d EXCEPT !.price_book = Append(@, [id |-> id, service_type |-> service_type,
                                                default_price |-> price,
                                                times_used |-> 1]),
                      !.seq.price_book = id]

\* a variant that stores the message as already sent
queue_client_message_sent(d, client_id, content, direction, channel, subject) ==
    LET id == d.seq.client_messages + 1
    IN [d EXCEPT !.client_messages =
                    Append(@, [id |-> id, client_id |-> client_id, direction |-> direction,
                               channel |-> channel, content |-> content,
                               subject |-> subject, status |-> "sent",
                               error_message |-> None, sent_at |-> None]),
                 !.seq.client_messages = id]

queue_client_message(d, client_id, content, direction, channel, subject) ==
    LET id == d.seq.client_messages + 1
    IN [d EXCEPT !.client_messages =
                    Append(@, [id |-> id, client_id |-> client_id, direction |-> direction,
                               channel |-> channel, content |-> content,
                               subject |-> subject, status |-> "pending",
                               error_message |-> None, sent_at |-> None]),
                 !.seq.client_messages = id]

\* client_messages JOIN clients: the message with its client's name, phone
\* and email, or None when the message or its client is not stored
get_message(d, message_id) ==
    LET hits(m) == m.id = message_id /\ get_client(d, m.client_id) # None
        found == SelectSeq(d.client_messages, hits)
    IN IF found = <<>> THEN None
       ELSE Some([id |-> found[1].id, content |-> found[1].content,
                  subject |-> found[1].subject, status |-> found[1].status,
                  client_name |-> get_client(d, found[1].client_id)[1].name,
                  client_phone |-> get_client(d, found[1].client_id)[1].phone,
                  client_email |-> get_client(d, found[1].client_id)[1].email])

mark_message_sent(d, message_id) ==
    [d EXCEPT !.client_messages =
        [i \in 1..Len(@) |->
            IF @[i].id = message_id
            THEN [@[i] EXCEPT !.status = "sent", !.sent_at = Some(d.now)]
            ELSE @[i]]]

\* a variant that records the error and leaves the status as it is
mark_message_failed_status_kept(d, message_id, error_message) ==
    [d EXCEPT !.client_messages =
        [i \in 1..Len(@) |->
            IF @[i].id = message_id
            THEN [@[i] EXCEPT !.error_message = Some(error_message)]
            ELSE @[i]]]

mark_message_failed(d, message_id, error_message) ==
    [d EXCEPT !.client_messages =
        [i \in 1..Len(@) |->
            IF @[i].id = message_id
            THEN [@[i] EXCEPT !.status = "failed", !.error_message = Some(error_message)]
            ELSE @[i]]]

\* All proposals are made in one calendar month, so every proposal_number
\* starts with the same PROP-<year><month> and is modelled by its number NNN.
generate_proposal_number(d) == Len(d.proposals) + 1

\* a price in cents, and back
Cents(p) == p.ip * 100 + DigitsVal(SubSeq(p.fp \o "00", 1, 2), 0)

DigitStr(n) == SubSeq("0123456789", n + 1, n + 1)

FromCents(n) ==
    [ip |-> n \div 100, fp |-> StripZerosRight(DigitStr((n % 100) \div 10) \o DigitStr(n % 10))]

RECURSIVE SumCents(_)
SumCents(services) ==
    IF services = <<>> THEN 0 ELSE Cents(Head(services).price) + SumCents(Tail(services))

\* a variant that stores the sum of the items as the total
create_proposal_sum(d, client_id, services, total, notes) ==
    LET proposal_number == Len(d.proposals) + 1
        id == d.seq.proposals + 1
        sum == FromCents(SumCents(services))
    IN IF \E i \in 1..Len(d.proposals) : d.proposals[i].proposal_number = proposal_number
       THEN [raised |-> TRUE, db |-> d, id |-> 0]
       ELSE [raised |-> FALSE, id |-> id,
             db |-> [d EXCEPT !.proposals =
                         Append(@, [id |-> id, client_id |-> client_id,
                                    proposal_number |-> proposal_number,
                                    services |-> services, subtotal |-> sum,
                                    total |-> sum, notes |-> notes,
                                    status |-> "draft", pdf_path |-> None]),
                               !.seq.proposals = id]]

\* a variant of the INSERT on a table without UNIQUE(proposal_number)
insert_proposal_unchecked(d, client_id, proposal_number, services, total, notes) ==
    LET id == d.seq.proposals + 1
    IN [raised |-> FALSE, id |-> id,
        db |-> [d EXCEPT !.proposals =
                    Append(@, [id |-> id, client_id |-> client_id,
                               proposal_number |-> proposal_number,
                               services |-> services, subtotal |-> total,
                               total |-> total, notes |-> notes,
                               status |-> "draft", pdf_path |-> None]),
                          !.seq.proposals = id]]

\* the INSERT of create_proposal, with the number it was given
\* raised: the INSERT broke UNIQUE(proposal_number) (sqlite3.IntegrityError)
insert_proposal(d, client_id, proposal_number, services, total, notes) ==
    LET id == d.seq.proposals + 1
    IN IF \E i \in 1..Len(d.proposals) : d.proposals[i].proposal_number = proposal_number
       THEN [raised |-> TRUE, db |-> d, id |-> 0]
       ELSE [raised |-> FALSE, id |-> id,
             db |-> [d EXCEPT !.proposals =
                         Append(@, [id |-> id, client_id |-> client_id,
                                    proposal_number |-> proposal_number,
                                    services |-> services, subtotal |-> total,
                                    total |-> total, notes |-> notes,
                                    status |-> "draft", pdf_path |-> None]),
                               !.seq.proposals = id]]

create_proposal(d, client_id, services, total, notes) ==
    insert_proposal(d, client_id, generate_proposal_number(d), services, total, notes)

get_proposal(d, proposal_id) ==
    LET hits(p) == p.id = proposal_id
    IN FetchOne(SelectSeq(d.proposals, hits))

delete_proposal(d, proposal_id) ==
    LET keep(p) == p.id # proposal_id
    IN [d EXCEPT !.proposals = SelectSeq(@, keep)]

update_proposal_pdf(d, proposal_id, pdf_path) ==
    [d EXCEPT !.proposals =
        [i \in 1..Len(@) |->
            IF @[i].id = proposal_id THEN [@[i] EXCEPT !.pdf_path = Some(pdf_path)]
            ELSE @[i]]]

update_proposal_status(d, proposal_id, status) ==
    [d EXCEPT !.proposals =
        [i \in 1..Len(@) |->
            IF @[i].id = proposal_id THEN [@[i] EXCEPT !.status = status] ELSE @[i]]]

get_invoice(d, invoice_id) ==
    LET hits(inv) == inv.id = invoice_id
    IN FetchOne(SelectSeq(d.invoices, hits))

delete_invoice(d, invoice_id) ==
    LET keep(inv) == inv.id # invoice_id
    IN [d EXCEPT !.invoices = SelectSeq(@, keep)]

create_chat_session(d, title, client_id) ==
    LET id == d.seq.chat_sessions + 1
    IN [d EXCEPT !.chat_sessions =
                    Append(@, [id |-> id,
                               title |-> IF title # None /\ title[1] # "" THEN title[1]
                                         ELSE "Nueva conversacion",
                               client_id |-> client_id, updated_at |-> d.now]),
                 !.seq.chat_sessions = id]

\* `if title:` / `if client_id:` leave a None or empty argument out
update_chat_session(d, session_id, title, client_id) ==
    [d EXCEPT !.chat_sessions =
        [i \in 1..Len(@) |->
            IF @[i].id = session_id
            THEN [@[i] EXCEPT !.updated_at = d.now,
                              !.title = IF title # None /\ title[1] # "" THEN title[1] ELSE @,
                              !.client_id = IF client_id # None THEN client_id ELSE @]
            ELSE @[i]]]

\* ORDER BY updated_at DESC LIMIT 1: the sessions it can return, which are
\* several when the newest timestamp is shared
DefaultSessions(d) ==
    {d.chat_sessions[i].id : i \in {j \in 1..Len(d.chat_sessions) :
        \A k \in 1..Len(d.chat_sessions) :
            d.chat_sessions[k].updated_at <= d.chat_sessions[j].updated_at}}

\* add_message(role, content, session_id): with no session_id the message
\* goes to the default session `pick` (get_or_create_default_session), which
\* is created when there is no session at all
add_message(d, role, content, session_id, pick) ==
    LET d1 == IF session_id = None /\ d.chat_sessions = <<>>
              THEN create_chat_session(d, None, None) ELSE d
        sid == IF session_id # None THEN session_id[1]
               ELSE IF d.chat_sessions = <<>> THEN d1.seq.chat_sessions
               ELSE pick
        id == d1.seq.conversation_memory + 1
    IN [d1 EXCEPT !.conversation_memory =
                     Append(@, [id |-> id, session_id |-> sid, role |-> role,
                                content |-> content]),
                  !.seq.conversation_memory = id,
                  !.chat_sessions =
                     [i \in 1..Len(@) |->
                        IF @[i].id = sid THEN [@[i] EXCEPT !.updated_at = d.now] ELSE @[i]]]

\* SELECT ... WHERE session_id = ? ORDER BY created_at ASC LIMIT ?: the
\* first `limit` messages of the session.  created_at never decreases from
\* one row to the next, so the rows are taken in rowid order.
get_session_messages(d, session_id, limit) ==
    LET mine(m) == m.session_id = session_id
        rows == SelectSeq(d.conversation_memory, mine)
    IN SubSeq(rows, 1, IF Len(rows) < limit THEN Len(rows) ELSE limit)

\* ORDER BY name, in SQLite's BINARY collation: code point order
CodeOrder ==
    "\t\n\r !#$%&()*+,-./0123456789:;<=>?@ABCDEFGHIJKLMNOPQRSTUVWXYZ[]^_abcdefghijklmnopqrstuvwxyz"

Code(c) ==
    LET at == {i \in 1..Len(CodeOrder) : Ch(CodeOrder, i) = c}
    IN IF at = {} THEN Len(CodeOrder) + 1 ELSE CHOOSE i \in at : TRUE

StrLess(a, b) ==
    \E i \in 1..(Len(b)) :
        /\ i <= Len(a) + 1
        /\ SubSeq(a, 1, i - 1) = SubSeq(b, 1, i - 1)
        /\ (i = Len(a) + 1 \/ Code(Ch(a, i)) < Code(Ch(b, i)))

\* SELECT * FROM clients ORDER BY name; rows of one name stay in rowid order
get_all_clients(d) ==
    LET n == Len(d.clients)
        before(i, j) == \/ StrLess(d.clients[i].name, d.clients[j].name)
                        \/ d.clients[i].name = d.clients[j].name /\ i < j
        rank(i) == Cardinality({j \in 1..n : before(j, i)}) + 1
    IN [k \in 1..n |-> d.clients[CHOOSE i \in 1..n : rank(i) = k]]

\* a variant that leaves the proposals of the client in place
delete_client_keeps_proposals(d, client_id) ==
    LET others(r) == r.client_id # client_id
        other(c) == c.id # client_id
    IN [d EXCEPT !.services = SelectSeq(@, others),
                 !.client_messages = SelectSeq(@, others),
                 !.invoices = SelectSeq(@, others),
                 !.chat_sessions =
                    [i \in 1..Len(@) |->
                        IF @[i].client_id = Some(client_id)
                        THEN [@[i] EXCEPT !.client_id = None] ELSE @[i]],
                 !.clients = SelectSeq(@, other)]

\* the five DELETEs and the UPDATE of delete_client, committed together
delete_client(d, client_id) ==
    LET others(r) == r.client_id # client_id
        other(c) == c.id # client_id
    IN [d EXCEPT !.services = SelectSeq(@, others),
                 !.client_messages = SelectSeq(@, others),
                 !.proposals = SelectSeq(@, others),
                 !.invoices = SelectSeq(@, others),
                 !.chat_sessions =
                    [i \in 1..Len(@) |->
                        IF @[i].client_id = Some(client_id)
                        THEN [@[i] EXCEPT !.client_id = None] ELSE @[i]],
                 !.clients = SelectSeq(@, other)]

(***************************************************************************)
(* invoice.py: generate_invoice, for the current quarter                   *)
(***************************************************************************)
\* counts the invoices of the month, as generate_proposal_number does
generate_invoice_number(d) == Len(d.invoices) + 1

\* db.get_client_services(client_id, uninvoiced_only): the rows of one
\* client, all of a day in the order they were stored
get_client_services(d, client_id, uninvoiced_only) ==
    LET mine(sv) == sv.client_id = client_id /\ (uninvoiced_only => ~sv.invoiced)
    IN SelectSeq(d.services, mine)

\* the ids of service rows
IdsOf(services) == {services[i].id : i \in 1..Len(services)}

\* maintenance + sum(s['price'] or 0 for s in services)
InvoiceTotal(services, maintenance_amount) ==
    FromCents((IF maintenance_amount = None THEN 0 ELSE Cents(maintenance_amount[1]))
              + SumCents(services))

\* doc.build(elements): the file <invoice_number>.pdf is written, over a
\* file of that name if there is one; lines names what the invoice bills
build_pdf(d, invoice_number, client_id, lines, total) ==
    [d EXCEPT !.pdfs = Put(@, invoice_number,
                           [client_id |-> client_id, lines |-> lines, total |-> total])]

\* the INSERT of generate_invoice, the UPDATE of each service it read, and
\* the commit; services are the ids of those services.  raised is
\* "IntegrityError" when the INSERT broke UNIQUE(invoice_number), and then
\* nothing is written.
insert_invoice(d, client_id, invoice_number, services, total) ==
    LET id == d.seq.invoices + 1
    IN IF \E i \in 1..Len(d.invoices) : d.invoices[i].invoice_number = invoice_number
       THEN [raised |-> "IntegrityError", db |-> d]
       ELSE [raised |-> "",
             db |-> [d EXCEPT !.invoices =
                         Append(@, [id |-> id, client_id |-> client_id,
                                    invoice_number |-> invoice_number,
                                    subtotal |-> total, total |-> total,
                                    status |-> "draft"]),
                               !.seq.invoices = id,
                               !.services =
                                  [i \in 1..Len(@) |->
                                      IF @[i].id \in services
                                      THEN [@[i] EXCEPT !.invoiced = TRUE,
                                                        !.invoice_id = Some(id)]
                                      ELSE @[i]]]]

\* raised is "ValueError" when there is no such client, "IntegrityError"
\* when the INSERT was refused; the PDF is written before the INSERT
generate_invoice(d, client_id, maintenance_amount) ==
    LET services == get_client_services(d, client_id, TRUE)
        total == InvoiceTotal(services, maintenance_amount)
        invoice_number == generate_invoice_number(d)
    IN IF get_client(d, client_id) = None THEN [raised |-> "ValueError", db |-> d]
       ELSE insert_invoice(build_pdf(d, invoice_number, client_id, IdsOf(services), total),
                           client_id, invoice_number, IdsOf(services), total)

\* raised is "ValueError" when the proposal or its client is not stored,
\* "IntegrityError" when the INSERT broke UNIQUE(invoice_number); the PDF is
\* written before the INSERT, and the INSERT and the UPDATE of the proposal
\* are one commit
generate_invoice_from_proposal(d, proposal_id) ==
    LET proposal == get_proposal(d, proposal_id)
        invoice_number == generate_invoice_number(d)
        id == d.seq.invoices + 1
    IN IF proposal = None THEN [raised |-> "ValueError", db |-> d]
       ELSE IF get_client(d, proposal[1].client_id) = None
       THEN [raised |-> "ValueError", db |-> d]
       ELSE IF \E i \in 1..Len(d.invoices) : d.invoices[i].invoice_number = invoice_number
       THEN [raised |-> "IntegrityError",
             db |-> build_pdf(d, invoice_number, proposal[1].client_id, {},
                              proposal[1].total)]
       ELSE [raised |-> "",
             db |-> [build_pdf(d, invoice_number, proposal[1].client_id, {},
                               proposal[1].total)
                     EXCEPT !.invoices =
                                Append(@, [id |-> id, client_id |-> proposal[1].client_id,
                                           invoice_number |-> invoice_number,
                                           subtotal |-> proposal[1].total,
                                           total |-> proposal[1].total,
                                           status |-> "draft"]),
                            !.seq.invoices = id,
                            !.proposals =
                                [i \in 1..Len(@) |->
                                    IF @[i].id = proposal_id
                                    THEN [@[i] EXCEPT !.status = "accepted"] ELSE @[i]]]]

\* the PDF of a proposal, in data/proposals under the proposal's number;
\* raised is "ValueError" when the proposal or its client is not stored
generate_proposal_pdf(d, proposal_id) ==
    LET proposal == get_proposal(d, proposal_id)
    IN IF proposal = None THEN [raised |-> "ValueError", db |-> d]
       ELSE IF get_client(d, proposal[1].client_id) = None
       THEN [raised |-> "ValueError", db |-> d]
       ELSE [raised |-> "",
             db |-> update_proposal_pdf(d, proposal_id, proposal[1].proposal_number)]

(***************************************************************************)
(* messaging.py.  What lies outside the program is an argument: twilio and *)
(* sendgrid say whether the library is installed, whether the credentials  *)
(* are set, and what the gateway answers, None when it accepts the message *)
(* and the text of the exception when it does not.                         *)
(***************************************************************************)
\* ''.join(c for c in phone if c.isdigit())
RECURSIVE DigitsOf(_)
DigitsOf(s) ==
    IF s = "" THEN ""
    ELSE (IF IsDigit(Head(s)) THEN SubSeq(s, 1, 1) ELSE "") \o DigitsOf(Tail(s))

\* phone is None or Some(text); the result is None or Some(E.164 number)
normalize_phone(phone) ==
    IF phone = None \/ phone[1] = "" THEN None
    ELSE LET digits == DigitsOf(phone[1])
         IN IF Len(digits) = 10 THEN Some("+1" \o digits)
            ELSE IF Len(digits) = 11 /\ Ch(digits, 1) = "1" THEN Some("+" \o digits)
            ELSE IF Len(digits) > 10 /\ Ch(phone[1], 1) = "+" THEN Some("+" \o digits)
            ELSE None

\* the outcome of a channel: success, and the error text when it failed
Delivered == [success |-> TRUE, error |-> ""]

Failed(error) == [success |-> FALSE, error |-> error]

send_sms(to_phone, message, twilio) ==
    IF ~twilio.available THEN Failed("Twilio not installed. Run: pip install twilio")
    ELSE IF ~twilio.configured THEN Failed("Twilio credentials not configured")
    ELSE IF normalize_phone(Some(to_phone)) = None
    THEN Failed("Invalid phone number: " \o to_phone)
    ELSE IF twilio.answer # None THEN Failed(twilio.answer[1])
    ELSE Delivered

send_email(to_email, subject, body, sendgrid) ==
    IF ~sendgrid.available THEN Failed("SendGrid not installed. Run: pip install sendgrid")
    ELSE IF ~sendgrid.configured THEN Failed("SendGrid API key not configured")
    ELSE IF sendgrid.answer # None THEN Failed(sendgrid.answer[1])
    ELSE Delivered

\* results: sms and email are None for a channel that was not tried
send_to_client(client, message, subject, message_type, twilio, sendgrid) ==
    LET email == IF message_type # "email" THEN None
                 ELSE IF client.email # None /\ client.email[1] # ""
                 THEN Some(send_email(client.email[1],
                                      IF subject # None /\ subject[1] # "" THEN subject[1]
                                      ELSE "Message from Hernandez Landscaping",
                                      message, sendgrid))
                 ELSE Some(Failed("No email address for client"))
        sms == IF message_type = "email" THEN None
               ELSE IF client.phone # None /\ client.phone[1] # ""
               THEN Some(send_sms(client.phone[1], message, twilio))
               ELSE Some(Failed("No phone number for client"))
    IN [sms |-> sms, email |-> email,
        success |-> (sms # None /\ sms[1].success) \/ (email # None /\ email[1].success)]

\* the proposal's PDF as an attachment; answer is what went wrong in the
\* try block (the file could not be read, the gateway raised or answered
\* with a status other than 200, 201, 202)
send_proposal_email(client, proposal, pdf_path, sendgrid) ==
    IF ~sendgrid.available THEN Failed("SendGrid not installed")
    ELSE IF ~sendgrid.configured THEN Failed("SendGrid not configured")
    ELSE IF client.email = None \/ client.email[1] = ""
    THEN Failed("No email address for client")
    ELSE IF sendgrid.answer # None THEN Failed(sendgrid.answer[1])
    ELSE Delivered

(***************************************************************************)
(* ai.py: get_context                                                      *)
(***************************************************************************)
\* "\n".join(lines)
RECURSIVE JoinLines(_)
JoinLines(lines) ==
    IF lines = <<>> THEN ""
    ELSE IF Len(lines) = 1 THEN lines[1]
    ELSE lines[1] \o "\n" \o JoinLines(Tail(lines))

\* f"- {c['name']}: {c['address'] or 'sin dirección'}"
RosterLine(c) ==
    "- " \o c.name \o ": " \o
    (IF c.address = None \/ c.address[1] = "" THEN "sin dirección" ELSE c.address[1])

NoClientsYet == "Todavía no hay clientes registrados."

\* a variant that lists only the clients that have an address
clients_str_addressed(d) ==
    LET clients == get_all_clients(d)
        addressed(c) == c.address # None /\ c.address[1] # ""
    IN IF clients = <<>> THEN NoClientsYet
       ELSE JoinLines([k \in 1..Len(SelectSeq(clients, addressed)) |->
                          RosterLine(SelectSeq(clients, addressed)[k])])

\* context['clients'].  The preferences column is NULL in every row, as no
\* turn and no route stores a value in it, so `if prefs` never holds and the
\* roster has no "Preferencias" line.
clients_str(d) ==
    LET clients == get_all_clients(d)
    IN IF clients = <<>> THEN NoClientsYet
       ELSE JoinLines([k \in 1..Len(clients) |-> RosterLine(clients[k])])

(***************************************************************************)
(* auth.py.  a.sessions is the dict sessions, a function on the tokens it  *)
(* holds; a.now is what datetime.now() reads, in hours.                    *)
(***************************************************************************)
SESSION_DURATION_HOURS == 24 * 7

\* two of the accounts of setup_default_users; password stands for the
\* password whose bcrypt hash the row holds
Users ==
    <<[id |-> 1, name |-> "Jaime", username |-> "jaime", password |-> "jaime123"],
      [id |-> 2, name |-> "Erika", username |-> "erika", password |-> "erika123"]>>

\* the user if the password is that user's, else None
verify_password(username, password) ==
    LET user(u) == u.username = username
        row == FetchOne(SelectSeq(Users, user))
    IN IF row = None THEN None
       ELSE IF row[1].password = password THEN row ELSE None

\* token is the value secrets.token_urlsafe(32) returned
create_session(a, user_id, token) ==
    [a EXCEPT !.sessions =
        Put(@, token, [user_id |-> user_id, expires |-> a.now + SESSION_DURATION_HOURS])]

\* SELECT id, name, username FROM users WHERE id = ?
UserById(user_id) ==
    LET user(u) == u.id = user_id
        row == FetchOne(SelectSeq(Users, user))
    IN IF row = None THEN None
       ELSE Some([id |-> row[1].id, name |-> row[1].name, username |-> row[1].username])

\* a variant that does not look at the expiry
get_session_user_unexpiring(a, token) ==
    IF token = None \/ token[1] = "" \/ token[1] \notin DOMAIN a.sessions
    THEN [auth |-> a, user |-> None]
    ELSE [auth |-> a, user |-> UserById(a.sessions[token[1]].user_id)]

\* token is None or Some(text); the result is the user, or None, and the
\* sessions as the call leaves them
get_session_user(a, token) ==
    IF token = None \/ token[1] = "" \/ token[1] \notin DOMAIN a.sessions
    THEN [auth |-> a, user |-> None]
    ELSE IF a.now > a.sessions[token[1]].expires
    THEN [auth |-> [a EXCEPT !.sessions = Del(@, token[1])], user |-> None]
    ELSE [auth |-> a, user |-> UserById(a.sessions[token[1]].user_id)]

logout(a, token) ==
    IF token \in DOMAIN a.sessions THEN [a EXCEPT !.sessions = Del(@, token)] ELSE a

(***************************************************************************)
(* The inputs of a turn                                                    *)
(***************************************************************************)
\* no block: the service block lacks its opening tag
ReplyNoTag ==
    "Claro, lo anoto.\nCliente: Maria\nServicio: Poda\nPrecio: $150\n[FIN SERVICIO]"

ReplyNewMaria ==
    "Listo.\n[CLIENTE NUEVO]\nNombre: Maria Lopez\nTeléfono: 555-1234\n[FIN CLIENTE]"

ReplyNewFull ==
    "[CLIENTE NUEVO]\nNombre: Maria\nTeléfono: 555-9999\nDirección: 12 Oak St\nNotas: llave en la puerta\n[FIN CLIENTE]"

ReplyService ==
    "[SERVICIO REGISTRADO]\nCliente: Maria\nServicio: Poda de árbol\nPrecio: $150\n[FIN SERVICIO]"

ReplyServiceAgain ==
    "[SERVICIO REGISTRADO]\nCliente: bob\nServicio: riego\nPrecio: 45.50\n[FIN SERVICIO]"

ReplyServiceBadPrice ==
    "[SERVICIO REGISTRADO]\nCliente: Maria\nServicio: Poda\nPrecio: $1.500.00\n[FIN SERVICIO]"

ReplyProposal ==
    "[PROPUESTA]\nCliente: Maria\nServicios:\n- Corte de pasto: $50\n- Fertilización: $30\n- Limpieza\nTotal: $75\nNotas: valido 30 dias\n[FIN PROPUESTA]"

\* a proposal whose client name is empty, and a message
ReplyProposalNoName ==
    "[PROPUESTA]\nCliente: \nServicios:\n- Riego: $40\nTotal: $40\n[FIN PROPUESTA]\n[MENSAJE PARA CLIENTE: Maria]\nHola\n[FIN MENSAJE]"

ReplyMessage == "[MENSAJE PARA CLIENTE: Maria]\nHi Maria, we come on Friday.\n[FIN MENSAJE]"

ReplyUnknown ==
    "[MENSAJE PARA CLIENTE: Pedro]\nHi Pedro\n[FIN MENSAJE]\n[SERVICIO REGISTRADO]\nCliente: Pedro\nServicio: Riego\nPrecio: $40\n[FIN SERVICIO]\n[PROPUESTA]\nCliente: Pedro\nServicios:\n- Riego: $40\nTotal: $40\n[FIN PROPUESTA]"

ReplyCombo ==
    "[CLIENTE NUEVO]\nNombre: Bob\n[FIN CLIENTE]\n[MENSAJE PARA CLIENTE: Bob]\nHi Bob\n[FIN MENSAJE]\n[SERVICIO REGISTRADO]\nCliente: Bob\nServicio: Riego\nPrecio: $40\n[FIN SERVICIO]\n[PROPUESTA]\nCliente: Bob\nServicios:\n- Riego: $40\nTotal: $40\n[FIN PROPUESTA]\n[PROPUESTA]\nCliente: Bob\nServicios:\n- Poda: $90.5\nTotal: $90.5\n[FIN PROPUESTA]"

Replies ==
    {ReplyNoTag, ReplyNewMaria, ReplyNewFull, ReplyService, ReplyServiceAgain,
     ReplyServiceBadPrice, ReplyProposal, ReplyProposalNoName, ReplyMessage,
     ReplyUnknown, ReplyCombo}

\* a new-client block whose name line is blank
ReplyNewNoName == "[CLIENTE NUEVO]\nNombre: \n[FIN CLIENTE]"

\* the replies of the turns that are about the session's title
TitleReplies == {ReplyNoTag, ReplyNewNoName, ReplyNewMaria, ReplyService}

UserHello == "hola"

\* two words, two spaces between them
UserSpaced == "buenos  dias"

UserFive == "uno dos tres cuatro cinco"

UserSix == "uno dos tres cuatro cinco seis"

\* the title a session is created with
UserDefault == "Nueva conversacion"

UserBlank == " "

UserMentions == "maria lopez quiere que le pode su arbol"

TurnInputs ==
    {[user_message |-> UserHello, reply |-> Some(r)] : r \in Replies}
    \cup {[user_message |-> UserMentions, reply |-> Some(r)] :
            r \in {ReplyNoTag, ReplyNewMaria}}
    \cup {[user_message |-> UserHello, reply |-> None]}

\* a new client and a proposal for it
ReplyRaceBob ==
    "[CLIENTE NUEVO]\nNombre: Bob\n[FIN CLIENTE]\n[PROPUESTA]\nCliente: Bob\nServicios:\n- Riego: $40\nTotal: $40\n[FIN PROPUESTA]"

\* a message and a service for a client that another turn may have stored
ReplyRaceFollow ==
    "[MENSAJE PARA CLIENTE: Bob]\nHi Bob\n[FIN MENSAJE]\n[SERVICIO REGISTRADO]\nCliente: Bob\nServicio: Riego\nPrecio: $40\n[FIN SERVICIO]"

\* the replies of the turns that run at the same time
RaceReplies == {ReplyRaceBob, ReplyRaceFollow}

RaceInputs == {[user_message |-> UserHello, reply |-> Some(r)] : r \in RaceReplies}

\* a new client and a service for it
ReplyNewWithService ==
    "[CLIENTE NUEVO]\nNombre: Maria\n[FIN CLIENTE]\n[SERVICIO REGISTRADO]\nCliente: Maria\nServicio: Poda\nPrecio: $150\n[FIN SERVICIO]"

\* the replies of the turns that fill the store with the rows of two clients
StoreReplies == {ReplyCombo, ReplyNewWithService}

StoreInputs == {[user_message |-> UserHello, reply |-> Some(r)] : r \in StoreReplies}

\* the turns that are about the session's title
TitleInputs ==
    {[user_message |-> u, reply |-> Some(ReplyNoTag)] :
        u \in {UserSpaced, UserFive, UserSix, UserDefault, UserBlank, UserMentions}}
    \cup {[user_message |-> UserHello, reply |-> Some(r)] :
            r \in TitleReplies \ {ReplyNoTag}}

\* process_response on each reply text, computed once
AllReplies == Replies \cup TitleReplies \cup RaceReplies \cup StoreReplies

ProcessedReplies == {<<r, process_response(r)>> : r \in AllReplies}

\* process_response(text), looked up when the text is one of the replies
Processed(text) ==
    IF text \in AllReplies
    THEN (CHOOSE p \in ProcessedReplies : p[1] = text)[2]
    ELSE process_response(text)

(***************************************************************************)
(* ai.py: generate_session_title                                           *)
(***************************************************************************)
\* the first five words of the message, with "..." when that is shorter
Preview(user_message) ==
    LET words == Words(user_message)
        joined == JoinSp(SubSeq(words, 1, IF Len(words) < 5 THEN Len(words) ELSE 5))
    IN IF Len(user_message) > Len(joined) THEN joined \o "..." ELSE joined

\* a variant that looks at the client messages before the proposals
generate_session_title_swapped(d, user_message, processed) ==
    LET clients == get_all_clients(d)
        mentioned == {i \in 1..Len(clients) :
                        Contains(Lower(user_message), Lower(clients[i].name))}
        preview == Preview(user_message)
    IN IF processed.new_clients # <<>>
       THEN Some("Cliente: " \o processed.new_clients[1].name)
       ELSE IF processed.client_messages # <<>>
               /\ processed.client_messages[1].client_name # ""
       THEN Some("Mensaje: " \o processed.client_messages[1].client_name)
       ELSE IF processed.proposals # <<>> /\ processed.proposals[1].client_name # ""
       THEN Some("Propuesta: " \o processed.proposals[1].client_name)
       ELSE IF processed.services # <<>> /\ processed.services[1].client_name # ""
       THEN Some("Servicio: " \o processed.services[1].client_name)
       ELSE IF mentioned # {}
       THEN Some("Chat: " \o clients[MinOf(mentioned)].name)
       ELSE IF preview # "" /\ preview # "Nueva conversacion"
       THEN Some(preview)
       ELSE None

generate_session_title(d, user_message, processed) ==
    LET clients == get_all_clients(d)
        mentioned == {i \in 1..Len(clients) :
                        Contains(Lower(user_message), Lower(clients[i].name))}
        preview == Preview(user_message)
    IN IF processed.new_clients # <<>>
       THEN Some("Cliente: " \o processed.new_clients[1].name)
       ELSE IF processed.proposals # <<>> /\ processed.proposals[1].client_name # ""
       THEN Some("Propuesta: " \o processed.proposals[1].client_name)
       ELSE IF processed.client_messages # <<>>
               /\ processed.client_messages[1].client_name # ""
       THEN Some("Mensaje: " \o processed.client_messages[1].client_name)
       ELSE IF processed.services # <<>> /\ processed.services[1].client_name # ""
       THEN Some("Servicio: " \o processed.services[1].client_name)
       ELSE IF mentioned # {}
       THEN Some("Chat: " \o clients[MinOf(mentioned)].name)
       ELSE IF preview # "" /\ preview # "Nueva conversacion"
       THEN Some(preview)
       ELSE None

(***************************************************************************)
(* ai.py: chat, as called by the /api/chat route of main.py.  Every store  *)
(* call commits on its own connection, so what a turn wrote before an      *)
(* exception stays written.                                                *)
(***************************************************************************)
\* a variant that creates the client without looking it up
RECURSIVE HandleNewClients_unchecked(_, _)
HandleNewClients_unchecked(d, ncs) ==
    IF ncs = <<>> THEN d
    ELSE LET nc == Head(ncs)
         IN HandleNewClients_unchecked(
                create_client(d, nc.name, nc.phone, None, nc.address, "en", nc.notes),
                Tail(ncs))

RECURSIVE HandleNewClients(_, _)
HandleNewClients(d, ncs) ==
    IF ncs = <<>> THEN d
    ELSE LET nc == Head(ncs)
             existing == get_client_by_name(d, nc.name)
         IN HandleNewClients(
                IF existing = None
                THEN create_client(d, nc.name, nc.phone, None, nc.address, "en", nc.notes)
                ELSE d,
                Tail(ncs))

RECURSIVE HandleClientMessages(_, _)
HandleClientMessages(d, cms) ==
    IF cms = <<>> THEN d
    ELSE LET cm == Head(cms)
             found_client == get_client_by_name(d, cm.client_name)
         IN HandleClientMessages(
                IF found_client # None
                THEN queue_client_message(d, found_client[1].id, cm.message,
                                          "outgoing", "sms", None)
                ELSE d,
                Tail(cms))

\* a variant that records the price whether or not the client is found
RECURSIVE HandleServices_price_always(_, _)
HandleServices_price_always(d, svcs) ==
    IF svcs = <<>> THEN d
    ELSE LET svc == Head(svcs)
             found_client == get_client_by_name(d, svc.client_name)
         IN HandleServices_price_always(
                set_price(IF found_client # None
                          THEN add_service(d, found_client[1].id, svc.description, svc.price)
                          ELSE d,
                          svc.description, svc.price),
                Tail(svcs))

RECURSIVE HandleServices(_, _)
HandleServices(d, svcs) ==
    IF svcs = <<>> THEN d
    ELSE LET svc == Head(svcs)
             found_client == get_client_by_name(d, svc.client_name)
         IN HandleServices(
                IF found_client # None
                THEN set_price(add_service(d, found_client[1].id, svc.description, svc.price),
                               svc.description, svc.price)
                ELSE d,
                Tail(svcs))

\* stops at the first create_proposal that raises
RECURSIVE HandleProposals(_, _)
HandleProposals(d, props) ==
    IF props = <<>> THEN [raised |-> FALSE, db |-> d]
    ELSE LET prop == Head(props)
             found_client == get_client_by_name(d, prop.client_name)
             made == create_proposal(d, found_client[1].id, prop.services, prop.total,
                                     prop.notes)
         IN IF found_client = None THEN HandleProposals(d, Tail(props))
            ELSE IF made.raised THEN [raised |-> TRUE, db |-> d]
            ELSE HandleProposals(made.db, Tail(props))

\* limit=20 of the call db.get_session_messages(session_id, limit=20)
HistoryLimit == 20

\* the messages chat passes to the model, d being the store that holds the
\* user's message
chat_messages(d, session_id, user_message) ==
    LET recent == get_session_messages(d, session_id, HistoryLimit)
        messages == [i \in 1..Len(recent) |->
                        [role |-> IF recent[i].role = "jaime" THEN "user" ELSE "assistant",
                         content |-> recent[i].content]]
    IN IF messages = <<>> \/ messages[Len(messages)].content # user_message
       THEN Append(messages, [role |-> "user", content |-> user_message])
       ELSE messages

NoResult ==
    [raised |-> FALSE, text |-> "", new_clients |-> <<>>, client_messages |-> <<>>,
     services |-> <<>>, proposals |-> <<>>]

\* One turn on the store d: session_id is None or Some(id); reply is the
\* model's text, or None when the model call raises; dt is the time passed
\* since the store was last written; pick is the default session, one of
\* DefaultSessions after the user's message is saved (chat_begin).  The
\* result is the store after the turn and what the turn computed; raised
\* names the exception that ended it ("" when it returned).
chat_begin(d, user_message, session_id, dt) ==
    LET d0 == [d EXCEPT !.now = @ + dt]
        d1 == IF session_id = None THEN create_chat_session(d0, None, None) ELSE d0
        sid == IF session_id = None THEN d1.seq.chat_sessions ELSE session_id[1]
    IN [session_id |-> sid, db |-> add_message(d1, "jaime", user_message, Some(sid), sid)]

\* what a turn leaves: the store, the exception, and what chat computed
TurnResult(d, raised, sid, processed, session_title) ==
    [db |-> d, raised |-> raised, session_id |-> sid, processed |-> processed,
     session_title |-> session_title]

\* the end of the turn: the session takes the title, if there is one
chat_end(d, sid, processed, session_title) ==
    TurnResult(IF session_title # None
               THEN update_chat_session(d, sid, session_title, None) ELSE d,
               "", sid, processed, session_title)

\* after the proposals, whose outcome is r
chat_title(r, sid, user_message, processed) ==
    IF r.raised THEN TurnResult(r.db, "IntegrityError", sid, processed, None)
    ELSE chat_end(r.db, sid, processed,
                  generate_session_title(r.db, user_message, processed))

\* a variant that deals with the new clients after the proposals
chat_reconcile_clients_last(d, sid, user_message, processed) ==
    IF processed.raised THEN TurnResult(d, "ValueError", sid, NoResult, None)
    ELSE chat_title(
            [raised |-> HandleProposals(
                            HandleServices(
                                HandleClientMessages(d, processed.client_messages),
                                processed.services),
                            processed.proposals).raised,
             db |-> HandleNewClients(
                        HandleProposals(
                            HandleServices(
                                HandleClientMessages(d, processed.client_messages),
                                processed.services),
                            processed.proposals).db,
                        processed.new_clients)],
            sid, user_message, processed)

\* reconciliation of the extraction result, on the store d that holds the
\* reply
chat_reconcile(d, sid, user_message, processed) ==
    IF processed.raised THEN TurnResult(d, "ValueError", sid, NoResult, None)
    ELSE chat_title(
            HandleProposals(
                HandleServices(
                    HandleClientMessages(
                        HandleNewClients(d, processed.new_clients),
                        processed.client_messages),
                    processed.services),
                processed.proposals),
            sid, user_message, processed)

\* the model call and what follows, b being the outcome of chat_begin
chat_reply(b, user_message, reply, pick) ==
    IF reply = None THEN TurnResult(b.db, "APIError", b.session_id, NoResult, None)
    ELSE chat_reconcile(add_message(b.db, "assistant", reply[1], None, pick),
                        b.session_id, user_message, Processed(reply[1]))

chat(d, user_message, session_id, reply, dt, pick) ==
    chat_reply(chat_begin(d, user_message, session_id, dt), user_message, reply, pick)

(***************************************************************************)
(* The state machine: the store db, the store pre as it was before the     *)
(* last request, and last, what the last request was and computed.  The    *)
(* chat turns that are under way at the same time are in turns, and the    *)
(* login sessions of auth.py in auth; requests that are served one after   *)
(* the other leave turns empty.                                            *)
(***************************************************************************)
MaxTurns == 2

MaxDeletes == 1

TurnsDone(d) ==
    Cardinality({i \in 1..Len(d.conversation_memory) :
                    d.conversation_memory[i].role = "jaime"})

SessionIds(d) == {d.chat_sessions[i].id : i \in 1..Len(d.chat_sessions)}

\* no turn under way
NoTurns == <<>>

\* auth.py: sessions = {} when the module is loaded, at hour 0.  issued and
\* revoked are the history the claims speak of: the tokens create_session
\* has returned, each with its user and the hour of its creation, and the
\* tokens logout has been called with.
NoAuth == [sessions |-> <<>>, now |-> 0, issued |-> <<>>, revoked |-> {}]

Init ==
    /\ db = EmptyDb
    /\ pre = EmptyDb
    /\ last = [op |-> "init"]
    /\ turns = NoTurns
    /\ auth = NoAuth

\* POST /api/chat
Chat(in, session_id, dt, pick) ==
    /\ TurnsDone(db) < MaxTurns
    /\ \E r \in {chat(db, in.user_message, session_id, in.reply, dt, pick)} :
       /\ db' = r.db
       /\ pre' = db
       /\ last' = [op |-> "chat", user_message |-> in.user_message, reply |-> in.reply,
                   session_id |-> r.session_id, raised |-> r.raised,
                   processed |-> r.processed, session_title |-> r.session_title]
    /\ UNCHANGED <<turns, auth>>

\* DELETE /api/proposals/{proposal_id}
DeleteProposal(proposal_id) ==
    /\ get_proposal(db, proposal_id) # None
    /\ db.seq.proposals - Len(db.proposals) < MaxDeletes
    /\ db' = delete_proposal(db, proposal_id)
    /\ pre' = db
    /\ last' = [op |-> "delete_proposal", proposal_id |-> proposal_id]
    /\ UNCHANGED <<turns, auth>>

\* Requests are at least a second apart here, so that no two sessions
\* share their updated_at and the default session is the turn's own.
Next ==
    \/ \E in \in TurnInputs, session_id \in {None} \cup {Some(i) : i \in SessionIds(db)},
          dt \in {1} :
          \E pick \in DefaultSessions(chat_begin(db, in.user_message, session_id, dt).db) :
             Chat(in, session_id, dt, pick)
    \/ \E proposal_id \in 1..db.seq.proposals : DeleteProposal(proposal_id)

Spec == Init /\ [][Next]_vars

\* The turns of TitleInputs, in a new session or in one that exists.
NextTitle ==
    \E in \in TitleInputs, session_id \in {None} \cup {Some(i) : i \in SessionIds(db)},
       dt \in {1} :
       \E pick \in DefaultSessions(chat_begin(db, in.user_message, session_id, dt).db) :
          Chat(in, session_id, dt, pick)

SpecTitle == Init /\ [][NextTitle]_vars

(***************************************************************************)
(* One conversation that grows long: every turn is a turn of the first     *)
(* session, and last.messages is what the turn passed to the model.        *)
(***************************************************************************)
MaxHistoryTurns == 11

HistoryInputs ==
    {[user_message |-> u, reply |-> Some(ReplyNoTag)] : u \in {UserHello, UserFive}}

\* POST /api/chat, a second after the request before it
ChatHistory(in, session_id) ==
    /\ TurnsDone(db) < MaxHistoryTurns
    /\ \E b \in {chat_begin(db, in.user_message, session_id, 1)} :
       \E r \in {chat_reply(b, in.user_message, in.reply, b.session_id)} :
          /\ db' = r.db
          /\ pre' = db
          /\ last' = [op |-> "chat", user_message |-> in.user_message, reply |-> in.reply,
                      session_id |-> r.session_id, raised |-> r.raised,
                      processed |-> r.processed, session_title |-> r.session_title,
                      messages |-> chat_messages(b.db, b.session_id, in.user_message)]
    /\ UNCHANGED <<turns, auth>>

NextHistory ==
    \E in \in HistoryInputs,
       session_id \in IF db.chat_sessions = <<>> THEN {None} ELSE {Some(1)} :
       ChatHistory(in, session_id)

SpecHistory == Init /\ [][NextHistory]_vars

(***************************************************************************)
(* The clients routes of main.py                                           *)
(***************************************************************************)
MaxClients == 3

\* the bodies of POST /api/clients
ClientInputs ==
    {[name |-> "Maria", phone |-> None, address |-> None],
     [name |-> "Maria", phone |-> None, address |-> Some("12 Oak St")],
     [name |-> "Maria Lopez", phone |-> None, address |-> None],
     [name |-> "Maria Lopez", phone |-> None, address |-> Some("")]}

\* POST /api/clients
CreateClient(client) ==
    /\ db.seq.clients < MaxClients
    /\ db' = create_client(db, client.name, client.phone, None, client.address, "en", None)
    /\ pre' = db
    /\ last' = [op |-> "create_client", client_id |-> db.seq.clients + 1]
    /\ UNCHANGED <<turns, auth>>

\* DELETE /api/clients/{client_id}: 404 when there is no such client
DeleteClient(client_id) ==
    /\ get_client(db, client_id) # None
    /\ db.seq.clients - Len(db.clients) < MaxDeletes
    /\ db' = delete_client(db, client_id)
    /\ pre' = db
    /\ last' = [op |-> "delete_client", client_id |-> client_id]
    /\ UNCHANGED <<turns, auth>>

\* POST /api/invoices without proposal_id and without maintenance_amount,
\* asked for a client that has a service to be invoiced
CreateInvoice(client_id) ==
    /\ \E i \in 1..Len(db.services) :
          db.services[i].client_id = client_id /\ ~db.services[i].invoiced
    /\ \E r \in {generate_invoice(db, client_id, None)} :
          /\ db' = r.db
          /\ pre' = db
          /\ last' = [op |-> "create_invoice", client_id |-> client_id,
                      raised |-> r.raised]
    /\ UNCHANGED <<turns, auth>>

\* database.update_chat_session(session_id, client_id=client_id), the call
\* that links a session to a client.  No route of main.py and no turn passes
\* client_id; the call is made as a caller of database.py can make it, for
\* a session that has no client and a client that is stored.
LinkSession(session_id, client_id) ==
    /\ \E i \in 1..Len(db.chat_sessions) :
          db.chat_sessions[i].id = session_id /\ db.chat_sessions[i].client_id = None
    /\ get_client(db, client_id) # None
    /\ db' = update_chat_session(db, session_id, None, Some(client_id))
    /\ pre' = db
    /\ last' = [op |-> "update_chat_session", session_id |-> session_id,
                client_id |-> client_id]
    /\ UNCHANGED <<turns, auth>>

\* Turns that store clients and their rows, each in a session of its own,
\* invoices, linked sessions, and the deletion of clients.
NextDelete ==
    \/ \E in \in StoreInputs, session_id \in {None}, dt \in {1} :
          \E pick \in DefaultSessions(chat_begin(db, in.user_message, session_id, dt).db) :
             Chat(in, session_id, dt, pick)
    \/ \E client_id \in 1..db.seq.clients : CreateInvoice(client_id)
    \/ \E session_id \in SessionIds(db), client_id \in 1..db.seq.clients :
          LinkSession(session_id, client_id)
    \/ \E client_id \in 1..db.seq.clients : DeleteClient(client_id)

SpecDelete == Init /\ [][NextDelete]_vars

NextRoster ==
    \/ \E client \in ClientInputs : CreateClient(client)
    \/ \E client_id \in 1..db.seq.clients : DeleteClient(client_id)

SpecRoster == Init /\ [][NextRoster]_vars

(***************************************************************************)
(* The messages routes of main.py                                          *)
(***************************************************************************)
\* "; ".join(errors)
RECURSIVE JoinErrors(_)
JoinErrors(errors) ==
    IF errors = <<>> THEN ""
    ELSE IF Len(errors) = 1 THEN errors[1]
    ELSE errors[1] \o "; " \o JoinErrors(Tail(errors))

\* the error lines of the channels that were tried and failed
ErrorsOf(result) ==
    (IF result.sms # None /\ ~result.sms[1].success
     THEN <<"SMS: " \o result.sms[1].error>> ELSE <<>>)
    \o (IF result.email # None /\ ~result.email[1].success
        THEN <<"Email: " \o result.email[1].error>> ELSE <<>>)

\* what send_message does once the message is found: the store it leaves,
\* the status of the response, its detail, and what the channels answered
SendOutcome(d, message_id, result) ==
    IF result.success
    THEN [db |-> mark_message_sent(d, message_id), status_code |-> 200, detail |-> "",
          result |-> Some(result)]
    ELSE [db |-> mark_message_failed(d, message_id,
                                     IF ErrorsOf(result) # <<>>
                                     THEN JoinErrors(ErrorsOf(result))
                                     ELSE "Unknown error"),
          status_code |-> 500,
          detail |-> IF ErrorsOf(result) # <<>> THEN JoinErrors(ErrorsOf(result))
                     ELSE "Unknown error",
          result |-> Some(result)]

\* POST /api/messages/{message_id}/send
send_message(d, message_id, twilio, sendgrid) ==
    IF get_message(d, message_id) = None
    THEN [db |-> d, status_code |-> 404, detail |-> "Mensaje no encontrado",
          result |-> None]
    ELSE SendOutcome(d, message_id,
            send_to_client([name |-> get_message(d, message_id)[1].client_name,
                            phone |-> get_message(d, message_id)[1].client_phone,
                            email |-> get_message(d, message_id)[1].client_email],
                           get_message(d, message_id)[1].content,
                           get_message(d, message_id)[1].subject,
                           "text", twilio, sendgrid))

MaxMessages == 2

\* the store after three POST /api/clients: clients with a phone number of
\* ten digits, of seven digits, and without
SendClients ==
    create_client(
        create_client(
            create_client(EmptyDb, "Maria", Some("831-555-1234"), None, None, "en", None),
            "Bob", Some("555-1234"), None, None, "en", None),
        "Ana", None, None, None, "en", None)

\* the gateway accepts the message, raises, is not configured
Gateways ==
    {[available |-> TRUE, configured |-> TRUE, answer |-> None],
     [available |-> TRUE, configured |-> TRUE, answer |-> Some("HTTP 400 Bad Request")],
     [available |-> TRUE, configured |-> FALSE, answer |-> None]}

\* no SENDGRID_API_KEY is set
NoSendGrid == [available |-> TRUE, configured |-> FALSE, answer |-> None]

\* POST /api/messages: 404 when there is no such client
CreateMessage(client_id, content) ==
    /\ db.seq.client_messages < MaxMessages
    /\ get_client(db, client_id) # None
    /\ db' = queue_client_message(db, client_id, content, "outgoing", "sms", None)
    /\ pre' = db
    /\ last' = [op |-> "create_message", message_id |-> db.seq.client_messages + 1]
    /\ UNCHANGED <<turns, auth>>

SendMessage(message_id, twilio) ==
    /\ \E r \in {send_message(db, message_id, twilio, NoSendGrid)} :
          /\ db' = r.db
          /\ pre' = db
          /\ last' = [op |-> "send_message", message_id |-> message_id,
                      status_code |-> r.status_code, detail |-> r.detail,
                      result |-> r.result]
    /\ UNCHANGED <<turns, auth>>

InitSend ==
    /\ db = SendClients
    /\ pre = SendClients
    /\ last = [op |-> "init"]
    /\ turns = NoTurns
    /\ auth = NoAuth

NextSend ==
    \/ \E client_id \in 1..db.seq.clients : CreateMessage(client_id, "Hi, we come on Friday.")
    \/ \E message_id \in 1..(db.seq.client_messages + 1), twilio \in Gateways :
          SendMessage(message_id, twilio)

SpecSend == InitSend /\ [][NextSend]_vars

(***************************************************************************)
(* POST /api/services, and the price ai.py suggests for a description      *)
(***************************************************************************)
\* db.add_service(...) and db.set_price(service.description, service.price)
register_service(d, client_id, description, price) ==
    set_price(add_service(d, client_id, description, price), description, price)

\* price['default_price'] if price else None
get_suggested_price(d, service_description) ==
    LET price == get_price(d, service_description)
    IN IF price = None THEN None ELSE Some(price[1].default_price)

MaxServices == 3

\* descriptions of which one contains another, in either case, and one
\* with a wildcard of LIKE
ServiceDescriptions == {"Poda de arbol", "Poda de setos", "PODA", "P_da"}

ServicePrices == {[ip |-> 150, fp |-> ""], [ip |-> 40, fp |-> "5"]}

AddService(client_id, description, price) ==
    /\ db.seq.services < MaxServices
    /\ db' = register_service(db, client_id, description, price)
    /\ pre' = db
    /\ last' = [op |-> "add_service", client_id |-> client_id,
                description |-> description, price |-> price]
    /\ UNCHANGED <<turns, auth>>

InitPrices ==
    /\ db = create_client(EmptyDb, "Maria", None, None, None, "en", None)
    /\ pre = db
    /\ last = [op |-> "init"]
    /\ turns = NoTurns
    /\ auth = NoAuth

NextPrices ==
    \E client_id \in 1..db.seq.clients, description \in ServiceDescriptions,
       price \in ServicePrices :
       AddService(client_id, description, price)

SpecPrices == InitPrices /\ [][NextPrices]_vars

(***************************************************************************)
(* The proposal routes of main.py, and POST /api/invoices for a proposal.  *)
(* The store holds a client with an email address and one without, as two  *)
(* POST /api/clients leave them.                                           *)
(***************************************************************************)
\* a variant that marks the proposal sent whatever the gateway answered
send_proposal_marks_always(d, proposal_id, sendgrid) ==
    LET proposal == get_proposal(d, proposal_id)
    IN IF proposal = None
       THEN [db |-> d, status_code |-> 404, detail |-> "Propuesta no encontrada"]
       ELSE [db |-> update_proposal_status(d, proposal_id, "sent"),
             status_code |-> 200, detail |-> ""]

\* POST /api/proposals/{proposal_id}/send: the store it leaves, the status
\* of the response and its detail.  A proposal PDF is never removed, so
\* the file exists when pdf_path is set.
send_proposal(d, proposal_id, sendgrid) ==
    LET proposal == get_proposal(d, proposal_id)
        client == get_client(d, proposal[1].client_id)
        with_pdf == IF proposal[1].pdf_path = None
                    THEN generate_proposal_pdf(d, proposal_id).db ELSE d
        send_result == send_proposal_email([name |-> client[1].name,
                                            email |-> client[1].email],
                                           [proposal_number |-> proposal[1].proposal_number,
                                            total |-> proposal[1].total],
                                           proposal[1].proposal_number, sendgrid)
    IN IF proposal = None
       THEN [db |-> d, status_code |-> 404, detail |-> "Propuesta no encontrada"]
       ELSE IF client = None
       THEN [db |-> d, status_code |-> 404, detail |-> "Cliente no encontrado"]
       ELSE IF client[1].email = None \/ client[1].email[1] = ""
       THEN [db |-> d, status_code |-> 400,
             detail |-> "El cliente no tiene email. Agrega un email primero."]
       ELSE IF send_result.success
       THEN [db |-> update_proposal_status(with_pdf, proposal_id, "sent"),
             status_code |-> 200, detail |-> ""]
       ELSE [db |-> with_pdf, status_code |-> 500, detail |-> send_result.error]

MaxProposals == 2

MaxInvoices == 2

ProposalClients ==
    create_client(
        create_client(EmptyDb, "Maria", None, Some("maria@example.com"), None, "en", None),
        "Bob", None, None, None, "en", None)

ProposalServices ==
    {<<[description |-> "Poda", price |-> [ip |-> 150, fp |-> ""]]>>,
     <<[description |-> "Poda", price |-> [ip |-> 150, fp |-> ""]],
       [description |-> "Riego", price |-> [ip |-> 40, fp |-> "5"]]>>}

\* POST /api/proposals: 404 when generate_proposal_pdf finds no client (the
\* proposal is stored by then), 500 when the INSERT was refused
CreateProposal(client_id, services) ==
    /\ db.seq.proposals < MaxProposals
    /\ \E made \in {create_proposal(db, client_id, services,
                                     FromCents(SumCents(services)), None)} :
       \E r \in {IF made.raised THEN [raised |-> "IntegrityError", db |-> db]
                 ELSE generate_proposal_pdf(made.db, made.id)} :
          /\ db' = r.db
          /\ pre' = db
          /\ last' = [op |-> "create_proposal", proposal_id |-> made.id,
                      status_code |-> IF r.raised = "" THEN 200
                                      ELSE IF r.raised = "ValueError" THEN 404 ELSE 500]
    /\ UNCHANGED <<turns, auth>>

SendProposal(proposal_id, sendgrid) ==
    /\ \E r \in {send_proposal(db, proposal_id, sendgrid)} :
          /\ db' = r.db
          /\ pre' = db
          /\ last' = [op |-> "send_proposal", proposal_id |-> proposal_id,
                      sendgrid |-> sendgrid,
                      status_code |-> r.status_code, detail |-> r.detail]
    /\ UNCHANGED <<turns, auth>>

\* POST /api/invoices with proposal_id: 404 on ValueError, 500 on any other
\* exception
CreateInvoiceFromProposal(proposal_id) ==
    /\ db.seq.invoices < MaxInvoices
    /\ \E r \in {generate_invoice_from_proposal(db, proposal_id)} :
          /\ db' = r.db
          /\ pre' = db
          /\ last' = [op |-> "create_invoice_from_proposal", proposal_id |-> proposal_id,
                      raised |-> r.raised]
    /\ UNCHANGED <<turns, auth>>

InitProposals ==
    /\ db = ProposalClients
    /\ pre = ProposalClients
    /\ last = [op |-> "init"]
    /\ turns = NoTurns
    /\ auth = NoAuth

NextProposals ==
    \/ \E client_id \in 1..(db.seq.clients + 1), services \in ProposalServices :
          CreateProposal(client_id, services)
    \/ \E proposal_id \in 1..(db.seq.proposals + 1), sendgrid \in Gateways :
          SendProposal(proposal_id, sendgrid)
    \/ \E proposal_id \in 1..(db.seq.proposals + 1) : CreateInvoiceFromProposal(proposal_id)

SpecProposals == InitProposals /\ [][NextProposals]_vars

(***************************************************************************)
(* The login routes of main.py.  A token is a fresh random value of 256    *)
(* bits: create_session never returns a token it returned before, and no   *)
(* request presents a token before it is issued; a request without a valid *)
(* token presents Forged or no cookie.                                     *)
(***************************************************************************)
Tokens == {"tokA", "tokB"}

Forged == "forged"

Credentials ==
    {[username |-> "jaime", password |-> "jaime123"],
     [username |-> "erika", password |-> "erika123"],
     [username |-> "jaime", password |-> "erika123"],
     [username |-> "nadie", password |-> "jaime123"]}

\* the hours a step of the clock takes: a day or a week
ClockSteps == {24, 168}

MaxClock == 192

\* the cookies a request can carry
Cookies == {None, Some(""), Some(Forged)} \cup {Some(t) : t \in DOMAIN auth.issued}

\* POST /api/login: 401 unless the password is the user's
Login(cred, token) ==
    /\ token \notin DOMAIN auth.issued
    /\ \E user \in {verify_password(cred.username, cred.password)} :
          IF user = None
          THEN /\ auth' = auth
               /\ last' = [op |-> "login", status |-> 401, token |-> None]
          ELSE /\ auth' = [create_session(auth, user[1].id, token) EXCEPT
                              !.issued = Put(@, token, [user_id |-> user[1].id,
                                                         created |-> auth.now])]
               /\ last' = [op |-> "login", status |-> 200, token |-> Some(token)]
    /\ UNCHANGED <<db, pre, turns>>

\* GET /api/me: require_auth, get_current_user, get_session_user
Me(session) ==
    /\ \E r \in {IF session = None \/ session[1] = ""
                  THEN [auth |-> auth, user |-> None]
                  ELSE get_session_user(auth, session)} :
          /\ auth' = r.auth
          /\ last' = [op |-> "get_session_user", token |-> session, user |-> r.user,
                      status |-> IF r.user = None THEN 401 ELSE 200]
    /\ UNCHANGED <<db, pre, turns>>

\* POST /api/logout
Logout(session) ==
    /\ auth' = IF session = None \/ session[1] = "" THEN auth
               ELSE [logout(auth, session[1]) EXCEPT !.revoked = @ \cup {session[1]}]
    /\ last' = [op |-> "logout", token |-> session]
    /\ UNCHANGED <<db, pre, turns>>

\* time passes
Tick(hours) ==
    /\ auth.now + hours <= MaxClock
    /\ auth' = [auth EXCEPT !.now = @ + hours]
    /\ last' = [op |-> "tick"]
    /\ UNCHANGED <<db, pre, turns>>

NextAuth ==
    \/ \E cred \in Credentials, token \in Tokens : Login(cred, token)
    \/ \E session \in Cookies : Me(session)
    \/ \E session \in Cookies : Logout(session)
    \/ \E hours \in ClockSteps : Tick(hours)

SpecAuth == Init /\ [][NextAuth]_vars

(***************************************************************************)
(* Two chat turns served at the same time, by two server processes on one  *)
(* database file.  chat takes no lock and every store call opens, commits  *)
(* and closes its own connection, so the store calls of the two turns      *)
(* interleave freely; a step here is one store call of ai.chat, and        *)
(* create_proposal is two steps, as it reads the number on one connection  *)
(* and inserts on another.  turns[t] is the position of turn t: pc is the  *)
(* part of chat it is in, at the store call that comes next, todo the      *)
(* candidates its loop has left, and the other fields are chat's locals.   *)
(***************************************************************************)
IdleTurn ==
    [pc |-> "idle", at |-> "", user_message |-> "", reply |-> None, session_id |-> 0,
     processed |-> NoResult, todo |-> <<>>, found |-> None, number |-> None,
     raised |-> "", created_client_id |-> None, session_title |-> None]

\* the four loops of chat, in their order
Phases == <<"clients", "messages", "services", "proposals">>

Candidates(processed, pc) ==
    CASE pc = "clients" -> processed.new_clients
      [] pc = "messages" -> processed.client_messages
      [] pc = "services" -> processed.services
      [] pc = "proposals" -> processed.proposals

\* the store call that follows the lookup of a loop
FirstStep(pc) ==
    CASE pc = "clients" -> "create"
      [] pc = "messages" -> "queue"
      [] pc = "services" -> "add_service"
      [] pc = "proposals" -> "number"

\* the turn at the first loop from the k-th on that has a candidate, or at
\* the title when there is none
RECURSIVE Enter(_, _)
Enter(turn, k) ==
    IF k > Len(Phases)
    THEN [turn EXCEPT !.pc = "title", !.at = "", !.todo = <<>>, !.found = None]
    ELSE IF Candidates(turn.processed, Phases[k]) = <<>> THEN Enter(turn, k + 1)
    ELSE [turn EXCEPT !.pc = Phases[k], !.at = "lookup", !.found = None,
                      !.todo = Candidates(turn.processed, Phases[k])]

\* the turn after the candidate at the head of its loop is dealt with
Pop(turn) ==
    IF Tail(turn.todo) = <<>>
    THEN Enter(turn, 1 + CHOOSE k \in 1..Len(Phases) : Phases[k] = turn.pc)
    ELSE [turn EXCEPT !.todo = Tail(@), !.at = "lookup", !.found = None]

\* turn t moves to newturn and leaves the store newdb
Step(t, newturn, newdb) ==
    /\ turns' = [turns EXCEPT ![t] = newturn]
    /\ db' = newdb
    /\ UNCHANGED <<pre, last, auth>>

\* session_id = db.create_chat_session(), for a request without session_id
RaceStart(t, in) ==
    /\ turns[t].pc = "idle"
    /\ Step(t, [turns[t] EXCEPT !.pc = "user", !.user_message = in.user_message,
                                !.reply = in.reply,
                                !.session_id = db.seq.chat_sessions + 1],
            create_chat_session(db, None, None))

\* db.add_message('jaime', user_message, session_id=session_id)
RaceUser(t) ==
    /\ turns[t].pc = "user"
    /\ Step(t, [turns[t] EXCEPT !.pc = "model"],
            add_message(db, "jaime", turns[t].user_message, Some(turns[t].session_id),
                        turns[t].session_id))

\* the model's reply: db.add_message('assistant', ...) and process_response
RaceReply(t, pick) ==
    /\ turns[t].pc = "model"
    /\ \E p \in {Processed(turns[t].reply[1])} :
          Step(t, IF p.raised THEN [turns[t] EXCEPT !.pc = "done", !.raised = "ValueError"]
                  ELSE Enter([turns[t] EXCEPT !.processed = p], 1),
               add_message(db, "assistant", turns[t].reply[1], None, pick))

\* db.get_client_by_name of the candidate at the head of the loop
RaceLookup(t) ==
    /\ turns[t].at = "lookup"
    /\ \E found \in {get_client_by_name(db,
                        IF turns[t].pc = "clients" THEN Head(turns[t].todo).name
                        ELSE Head(turns[t].todo).client_name)} :
          Step(t, IF (turns[t].pc = "clients") = (found = None)
                  THEN [turns[t] EXCEPT !.found = found, !.at = FirstStep(turns[t].pc)]
                  ELSE Pop(turns[t]),
               db)

\* db.create_client, after `if not existing`
RaceCreate(t) ==
    /\ turns[t].at = "create"
    /\ \E d \in {create_client(db, Head(turns[t].todo).name, Head(turns[t].todo).phone,
                                None, Head(turns[t].todo).address, "en",
                                Head(turns[t].todo).notes)} :
          Step(t, Pop([turns[t] EXCEPT !.created_client_id = Some(d.seq.clients)]), d)

\* db.queue_client_message, after `if found_client`
RaceQueue(t) ==
    /\ turns[t].at = "queue"
    /\ Step(t, Pop(turns[t]),
            queue_client_message(db, turns[t].found[1].id, Head(turns[t].todo).message,
                                 "outgoing", "sms", None))

\* db.add_service, after `if found_client`
RaceAddService(t) ==
    /\ turns[t].at = "add_service"
    /\ Step(t, [turns[t] EXCEPT !.at = "set_price"],
            add_service(db, turns[t].found[1].id, Head(turns[t].todo).description,
                        Head(turns[t].todo).price))

\* db.set_price
RaceSetPrice(t) ==
    /\ turns[t].at = "set_price"
    /\ Step(t, Pop(turns[t]),
            set_price(db, Head(turns[t].todo).description, Head(turns[t].todo).price))

\* create_proposal: proposal_number = generate_proposal_number()
RaceNumber(t) ==
    /\ turns[t].at = "number"
    /\ Step(t, [turns[t] EXCEPT !.at = "insert",
                                !.number = Some(generate_proposal_number(db))],
            db)

\* create_proposal: the INSERT and the commit
RaceInsert(t) ==
    /\ turns[t].at = "insert"
    /\ \E r \in {insert_proposal(db, turns[t].found[1].id, turns[t].number[1],
                                  Head(turns[t].todo).services, Head(turns[t].todo).total,
                                  Head(turns[t].todo).notes)} :
          Step(t, IF r.raised
                  THEN [turns[t] EXCEPT !.pc = "done", !.at = "", !.raised = "IntegrityError"]
                  ELSE Pop(turns[t]),
               r.db)

\* session_title = generate_session_title(user_message, processed)
RaceTitle(t) ==
    /\ turns[t].pc = "title"
    /\ \E title \in {generate_session_title(db, turns[t].user_message,
                                             turns[t].processed)} :
          Step(t, [turns[t] EXCEPT !.pc = IF title = None THEN "done" ELSE "rename",
                                  !.session_title = title],
               db)

\* db.update_chat_session(session_id, title=session_title)
RaceRename(t) ==
    /\ turns[t].pc = "rename"
    /\ Step(t, [turns[t] EXCEPT !.pc = "done"],
            update_chat_session(db, turns[t].session_id, turns[t].session_title, None))

\* two requests are under way; all store calls fall into one second
InitRace ==
    /\ db = EmptyDb
    /\ pre = EmptyDb
    /\ last = [op |-> "race"]
    /\ turns = <<IdleTurn, IdleTurn>>
    /\ auth = NoAuth

NextRace ==
    \E t \in DOMAIN turns :
        \/ \E in \in RaceInputs : RaceStart(t, in)
        \/ RaceUser(t)
        \/ \E pick \in DefaultSessions(db) : RaceReply(t, pick)
        \/ RaceLookup(t)
        \/ RaceCreate(t)
        \/ RaceQueue(t)
        \/ RaceAddService(t)
        \/ RaceSetPrice(t)
        \/ RaceNumber(t)
        \/ RaceInsert(t)
        \/ RaceTitle(t)
        \/ RaceRename(t)

SpecRace == InitRace /\ [][NextRace]_vars

(***************************************************************************)
(* Two chat turns, each in a session of its own, while the clock of        *)
(* CURRENT_TIMESTAMP runs: one turn after the other, or the two at the     *)
(* same time.  Their replies hold no block, so a turn is its session, its  *)
(* two messages and its title.                                             *)
(***************************************************************************)
SessionInputs ==
    {[user_message |-> u, reply |-> Some(ReplyNoTag)] : u \in {UserHello, UserFive}}

MaxSeconds == 2

\* a second passes between two store calls
RaceTick ==
    /\ db.now < MaxSeconds
    /\ db' = [db EXCEPT !.now = @ + 1]
    /\ UNCHANGED <<pre, last, turns, auth>>

NextSessions ==
    \/ \E t \in DOMAIN turns :
          \/ \E in \in SessionInputs : RaceStart(t, in)
          \/ RaceUser(t)
          \/ \E pick \in DefaultSessions(db) : RaceReply(t, pick)
          \/ RaceTitle(t)
          \/ RaceRename(t)
    \/ RaceTick

SpecSessions == InitRace /\ [][NextSessions]_vars

(***************************************************************************)
(* Two POST /api/invoices requests served at the same time, as the chat    *)
(* turns above: generate_invoice reads the client's uninvoiced services,   *)
(* reads the number, writes the PDF, and inserts and marks in one commit,  *)
(* each on a connection of its own and under no lock.  The store holds two *)
(* clients with services, as POST /api/clients and POST /api/services      *)
(* leave them.                                                             *)
(***************************************************************************)
BillingStore ==
    register_service(
        register_service(
            register_service(
                create_client(
                    create_client(EmptyDb, "Maria", None, None, None, "en", None),
                    "Bob", None, None, None, "en", None),
                1, "Poda", [ip |-> 150, fp |-> ""]),
            2, "Riego", [ip |-> 40, fp |-> ""]),
        1, "Riego", [ip |-> 40, fp |-> "5"])

IdleInvoice ==
    [pc |-> "idle", client_id |-> 0, services |-> {}, total |-> FromCents(0),
     number |-> None, raised |-> "", invoice_id |-> None]

\* client = db.get_client(client_id); services = db.get_client_services(...)
InvoiceStart(t, client_id) ==
    /\ turns[t].pc = "idle"
    /\ \E services \in {get_client_services(db, client_id, TRUE)} :
          Step(t, IF get_client(db, client_id) = None
                  THEN [turns[t] EXCEPT !.pc = "done", !.client_id = client_id,
                                        !.raised = "ValueError"]
                  ELSE [turns[t] EXCEPT !.pc = "number", !.client_id = client_id,
                                        !.services = IdsOf(services),
                                        !.total = InvoiceTotal(services, None)],
               db)

\* invoice_number = generate_invoice_number()
InvoiceNumber(t) ==
    /\ turns[t].pc = "number"
    /\ Step(t, [turns[t] EXCEPT !.pc = "pdf", !.number = Some(generate_invoice_number(db))],
            db)

\* doc.build(elements)
InvoicePdf(t) ==
    /\ turns[t].pc = "pdf"
    /\ Step(t, [turns[t] EXCEPT !.pc = "insert"],
            build_pdf(db, turns[t].number[1], turns[t].client_id, turns[t].services,
                      turns[t].total))

\* the INSERT, the UPDATEs and the commit
InvoiceInsert(t) ==
    /\ turns[t].pc = "insert"
    /\ \E r \in {insert_invoice(db, turns[t].client_id, turns[t].number[1],
                                 turns[t].services, turns[t].total)} :
          Step(t, [turns[t] EXCEPT !.pc = "done", !.raised = r.raised,
                                   !.invoice_id = IF r.raised = "" THEN Some(r.db.seq.invoices)
                                                  ELSE None],
               r.db)

InitBilling ==
    /\ db = BillingStore
    /\ pre = BillingStore
    /\ last = [op |-> "race"]
    /\ turns = <<IdleInvoice, IdleInvoice>>
    /\ auth = NoAuth

NextBilling ==
    \E t \in DOMAIN turns :
        \/ \E client_id \in 1..(db.seq.clients + 1) : InvoiceStart(t, client_id)
        \/ InvoiceNumber(t)
        \/ InvoicePdf(t)
        \/ InvoiceInsert(t)

SpecBilling == InitBilling /\ [][NextBilling]_vars

(***************************************************************************)
(* Invoices that are generated and deleted: POST /api/invoices for a       *)
(* client or for a proposal, DELETE /api/invoices/{invoice_id} and DELETE  *)
(* /api/clients/{client_id}.  The store holds two clients with services    *)
(* and a proposal for the first, as POST /api/proposals leaves it.         *)
(***************************************************************************)
InvoiceStore ==
    generate_proposal_pdf(
        create_proposal(BillingStore, 1,
                        <<[description |-> "Poda", price |-> [ip |-> 150, fp |-> ""]]>>,
                        [ip |-> 150, fp |-> ""], None).db,
        1).db

\* DELETE /api/invoices/{invoice_id}: 404 when there is no such invoice
DeleteInvoice(invoice_id) ==
    /\ get_invoice(db, invoice_id) # None
    /\ db' = delete_invoice(db, invoice_id)
    /\ pre' = db
    /\ last' = [op |-> "delete_invoice", invoice_id |-> invoice_id]
    /\ UNCHANGED <<turns, auth>>

InitInvoices ==
    /\ db = InvoiceStore
    /\ pre = InvoiceStore
    /\ last = [op |-> "init"]
    /\ turns = NoTurns
    /\ auth = NoAuth

NextInvoices ==
    \/ \E client_id \in 1..db.seq.clients : CreateInvoice(client_id)
    \/ \E proposal_id \in 1..db.seq.proposals : CreateInvoiceFromProposal(proposal_id)
    \/ \E invoice_id \in 1..db.seq.invoices : DeleteInvoice(invoice_id)
    \/ \E client_id \in 1..db.seq.clients : DeleteClient(client_id)

SpecInvoices == InitInvoices /\ [][NextInvoices]_vars

(***************************************************************************)
(* What the claims speak of, read off the state: last is the request that  *)
(* led from the store pre to the store db.                                 *)
(***************************************************************************)
\* the last request was a chat turn that reached reconciliation
Reconciled == last.op = "chat" /\ last.raised \in {"", "IntegrityError"}

\* the rows of table t that the last chat turn appended
NewRows(t) == SubSeq(db[t], Len(pre[t]) + 1, Len(db[t]))

\* the stored clients whose name holds `name`, letter case aside
Matching(clients, name) ==
    {i \in 1..Len(clients) : Contains(Lower(clients[i].name), Lower(name))}

\* the client a name resolves to: the match stored first
ResolvedClient(clients, name) == clients[MinOf(Matching(clients, name))]

\* the candidates whose client_name resolves
Resolving(clients, cands) ==
    LET found(x) == Matching(clients, x.client_name) # {}
    IN SelectSeq(cands, found)

\* opening and closing tag of the four kinds of block
TagPairs ==
    {<<"[CLIENTE NUEVO]", "[FIN CLIENTE]">>,
     <<"[MENSAJE PARA CLIENTE: ", "[FIN MENSAJE]">>,
     <<"[SERVICIO REGISTRADO]", "[FIN SERVICIO]">>,
     <<"[PROPUESTA]", "[FIN PROPUESTA]">>}

\* of each kind of block the text lacks the opening or the closing tag
NoTagBlock(text) == \A p \in TagPairs : ~Contains(text, p[1]) \/ ~Contains(text, p[2])

\* C1: a reply that holds no tag block is extracted to four empty sequences
\* without an error, and the turn creates no client, no outgoing message, no
\* service, no price-book entry and no proposal.
C1_NoTagsNoEffect ==
    (last.op = "chat" /\ last.reply # None /\ NoTagBlock(last.reply[1])) =>
        /\ last.raised = ""
        /\ last.processed.new_clients = <<>>
        /\ last.processed.client_messages = <<>>
        /\ last.processed.services = <<>>
        /\ last.processed.proposals = <<>>
        /\ db.clients = pre.clients
        /\ db.client_messages = pre.client_messages
        /\ db.services = pre.services
        /\ db.price_book = pre.price_book
        /\ db.proposals = pre.proposals

\* a turn on a store with clients whose reply has the fields and the closing
\* tag of a service block, but not its opening tag
C1_Witness ==
    /\ last.op = "chat" /\ last.reply # None /\ NoTagBlock(last.reply[1])
    /\ Contains(last.reply[1], "[FIN SERVICIO]")
    /\ Matching(pre.clients, "Maria") # {}
    /\ last.raised = ""

\* C2: a new-client candidate whose name finds no stored client (and no
\* earlier candidate of the reply) makes the turn create exactly one client
\* of that name, with the candidate's phone, address and notes, None where
\* the candidate has none.
C2_NewClientCreated ==
    Reconciled =>
        \A i \in 1..Len(last.processed.new_clients) :
            LET nc == last.processed.new_clients[i]
                rows == {k \in 1..Len(db.clients) : db.clients[k].name = nc.name}
            IN (/\ Matching(pre.clients, nc.name) = {}
                /\ \A j \in 1..(i - 1) :
                     ~Contains(Lower(last.processed.new_clients[j].name), Lower(nc.name)))
               => /\ Cardinality(rows) = 1
                  /\ \A k \in rows :
                        /\ k > Len(pre.clients)
                        /\ db.clients[k].phone = nc.phone
                        /\ db.clients[k].address = nc.address
                        /\ db.clients[k].notes = nc.notes

\* the candidate Maria Lopez, 555-1234, no address, no notes, on a store
\* that has other clients but not her
C2_Witness ==
    /\ Reconciled
    /\ pre.clients # <<>>
    /\ \E i \in 1..Len(last.processed.new_clients) :
          /\ last.processed.new_clients[i] =
                [name |-> "Maria Lopez", phone |-> Some("555-1234"),
                 address |-> None, notes |-> None]
          /\ Matching(pre.clients, "Maria Lopez") = {}
    /\ \E k \in 1..Len(db.clients) :
          db.clients[k].name = "Maria Lopez" /\ db.clients[k].phone = Some("555-1234")

\* C3: a new-client candidate whose name finds a stored client creates no
\* client, and the stored clients keep every field; reconciling the turn's
\* candidates once more on the store the turn left creates no client.
C3_FirstWriteWins ==
    Reconciled =>
        LET ncs == last.processed.new_clients
            fresh == {i \in 1..Len(ncs) : Matching(pre.clients, ncs[i].name) = {}}
        IN /\ SubSeq(db.clients, 1, Len(pre.clients)) = pre.clients
           /\ Len(db.clients) - Len(pre.clients) <= Cardinality(fresh)
           /\ \A i \in (1..Len(ncs)) \ fresh :
                 \A k \in (Len(pre.clients) + 1)..Len(db.clients) :
                    db.clients[k].name # ncs[i].name
           /\ HandleNewClients(db, ncs).clients = db.clients

\* a candidate with another phone than the stored client its name finds
C3_Witness ==
    /\ Reconciled
    /\ \E i \in 1..Len(last.processed.new_clients) :
          LET nc == last.processed.new_clients[i]
          IN /\ Matching(pre.clients, nc.name) # {}
             /\ nc.phone # None
             /\ ResolvedClient(pre.clients, nc.name).phone # nc.phone
             /\ ResolvedClient(pre.clients, nc.name).name # nc.name
    /\ db.clients = pre.clients

\* the sum of the usage counters of a price book
RECURSIVE TimesUsed(_)
TimesUsed(book) ==
    IF book = <<>> THEN 0 ELSE Head(book).times_used + TimesUsed(Tail(book))

\* the entries of a price book that a description finds
PriceHits(book, description) ==
    {i \in 1..Len(book) : Contains(Lower(book[i].service_type), Lower(description))}

\* one step of the price book for a service: the entry found first counts
\* one more use and takes the price, or a new entry is added with one use
PriceStep(old, new, svc) ==
    LET hits == PriceHits(old, svc.description)
    IN IF hits # {}
       THEN /\ Len(new) = Len(old)
            /\ \A i \in 1..Len(old) :
                  new[i] = IF i = MinOf(hits)
                           THEN [old[i] EXCEPT !.times_used = @ + 1,
                                               !.default_price = svc.price]
                           ELSE old[i]
       ELSE /\ Len(new) = Len(old) + 1
            /\ SubSeq(new, 1, Len(old)) = old
            /\ new[Len(new)].service_type = svc.description
            /\ new[Len(new)].default_price = svc.price
            /\ new[Len(new)].times_used = 1

\* C4: every service candidate whose client name resolves makes the turn
\* add exactly one service row, of that client, with the candidate's
\* description and price and not invoiced, and move the price book by one
\* step: one more use counted per such candidate, on the entry its
\* description finds or else on a new entry with usage counter 1.
C4_ServiceAndPriceStep ==
    Reconciled =>
        LET resolved == Resolving(db.clients, last.processed.services)
            new == NewRows("services")
        IN /\ SubSeq(db.services, 1, Len(pre.services)) = pre.services
           /\ Len(new) = Len(resolved)
           /\ \A i \in 1..Len(resolved) :
                 /\ new[i].client_id = ResolvedClient(db.clients, resolved[i].client_name).id
                 /\ new[i].description = resolved[i].description
                 /\ new[i].price = resolved[i].price
                 /\ new[i].invoiced = FALSE
           /\ TimesUsed(db.price_book) = TimesUsed(pre.price_book) + Len(resolved)
           /\ Len(db.price_book) - Len(pre.price_book) <= Len(resolved)
           /\ Len(resolved) = 1 => PriceStep(pre.price_book, db.price_book, resolved[1])

\* a service whose description finds a price-book entry stored under another
\* spelling and at another price
C4_Witness ==
    /\ Reconciled
    /\ Len(Resolving(db.clients, last.processed.services)) = 1
    /\ \E i \in PriceHits(pre.price_book, last.processed.services[1].description) :
          /\ pre.price_book[i].service_type # last.processed.services[1].description
          /\ pre.price_book[i].default_price # last.processed.services[1].price
          /\ db.price_book[i].times_used = 2
    /\ Len(db.services) = Len(pre.services) + 1

\* C5: every proposal candidate whose client name resolves is stored with
\* its declared total as total (and subtotal), whatever its items add up to.
C5_TotalAsDeclared ==
    (last.op = "chat" /\ last.raised = "") =>
        LET resolved == Resolving(db.clients, last.processed.proposals)
            new == NewRows("proposals")
        IN /\ SubSeq(db.proposals, 1, Len(pre.proposals)) = pre.proposals
           /\ Len(new) = Len(resolved)
           /\ \A i \in 1..Len(resolved) :
                 /\ new[i].total = resolved[i].total
                 /\ new[i].subtotal = resolved[i].total
                 /\ new[i].services = resolved[i].services
                 /\ new[i].client_id = ResolvedClient(db.clients, resolved[i].client_name).id

\* a proposal stored with total 75 whose two items are priced 50 and 30
C5_Witness ==
    /\ last.op = "chat" /\ last.raised = ""
    /\ \E i \in (Len(pre.proposals) + 1)..Len(db.proposals) :
          /\ db.proposals[i].total = [ip |-> 75, fp |-> ""]
          /\ Len(db.proposals[i].services) = 2
          /\ db.proposals[i].services[1].price = [ip |-> 50, fp |-> ""]
          /\ db.proposals[i].services[2].price = [ip |-> 30, fp |-> ""]

\* C6: a chat turn that ends in an exception, of the model call or of a
\* store call, leaves the clients, outgoing messages, services, price book
\* and proposals as they were before the turn.
C6_NoPartialReconciliation ==
    (last.op = "chat" /\ last.raised # "") =>
        /\ db.clients = pre.clients
        /\ db.client_messages = pre.client_messages
        /\ db.services = pre.services
        /\ db.price_book = pre.price_book
        /\ db.proposals = pre.proposals

\* C7: process_response raises on no reply text.
C7_NeverRaises ==
    (last.op = "chat" /\ last.reply # None) => ~Processed(last.reply[1]).raised

\* C8: message, service and proposal candidates whose client name resolves
\* to no stored client add no row: each table grows by one row per resolving
\* candidate only, the price book stays as it was when no service candidate
\* resolves, and a turn none of whose proposal candidates resolves ends
\* without an exception.
C8_UnresolvedDropped ==
    Reconciled =>
        LET p == last.processed
            messages == Resolving(db.clients, p.client_messages)
            services == Resolving(db.clients, p.services)
            proposals == Resolving(db.clients, p.proposals)
        IN /\ Len(db.client_messages) = Len(pre.client_messages) + Len(messages)
           /\ Len(db.services) = Len(pre.services) + Len(services)
           /\ services = <<>> => db.price_book = pre.price_book
           /\ proposals = <<>> => db.proposals = pre.proposals /\ last.raised = ""
           /\ last.raised = "" => Len(db.proposals) = Len(pre.proposals) + Len(proposals)

\* a turn on a store with clients, with a message, a service and a proposal
\* candidate that all name a client the store does not find
C8_Witness ==
    /\ Reconciled
    /\ db.clients # <<>>
    /\ last.processed.client_messages # <<>>
    /\ last.processed.services # <<>>
    /\ last.processed.proposals # <<>>
    /\ Resolving(db.clients, last.processed.client_messages) = <<>>
    /\ Resolving(db.clients, last.processed.services) = <<>>
    /\ Resolving(db.clients, last.processed.proposals) = <<>>
    /\ last.raised = ""

\* C9: every client-message candidate whose client name resolves makes the
\* turn queue exactly one outgoing message, of that client, with the
\* candidate's text, status pending and channel sms.
C9_MessageQueued ==
    Reconciled =>
        LET resolved == Resolving(db.clients, last.processed.client_messages)
            new == NewRows("client_messages")
        IN /\ SubSeq(db.client_messages, 1, Len(pre.client_messages)) = pre.client_messages
           /\ Len(new) = Len(resolved)
           /\ \A i \in 1..Len(resolved) :
                 /\ new[i].client_id = ResolvedClient(db.clients, resolved[i].client_name).id
                 /\ new[i].content = resolved[i].message
                 /\ new[i].direction = "outgoing"
                 /\ new[i].status = "pending"
                 /\ new[i].channel = "sms"

\* a message queued for a client stored before the turn, found by a part of
\* its name
C9_Witness ==
    /\ Reconciled
    /\ \E i \in (Len(pre.client_messages) + 1)..Len(db.client_messages) :
          /\ db.client_messages[i].status = "pending"
          /\ db.client_messages[i].channel = "sms"
          /\ \E k \in 1..Len(pre.clients) :
                /\ pre.clients[k].id = db.client_messages[i].client_id
                /\ pre.clients[k].name # last.processed.client_messages[1].client_name

\* the first candidate of a list names a client
Named(cands) == cands # <<>> /\ cands[1].client_name # ""

\* C10: the title of a turn is decided by the first signal present, in the
\* order: first new-client candidate, first proposal's client name, first
\* client message's client name, first service's client name, a stored
\* client whose name occurs in the user text (letter case aside), the
\* five-word preview.
C10_TitlePriority ==
    (last.op = "chat" /\ last.raised = "") =>
        LET p == last.processed
            t == last.session_title
            mentioned == {i \in 1..Len(db.clients) :
                            Contains(Lower(last.user_message), Lower(db.clients[i].name))}
            preview == Preview(last.user_message)
        IN IF p.new_clients # <<>>
           THEN t = Some("Cliente: " \o p.new_clients[1].name)
           ELSE IF Named(p.proposals)
           THEN t = Some("Propuesta: " \o p.proposals[1].client_name)
           ELSE IF Named(p.client_messages)
           THEN t = Some("Mensaje: " \o p.client_messages[1].client_name)
           ELSE IF Named(p.services)
           THEN t = Some("Servicio: " \o p.services[1].client_name)
           ELSE IF mentioned # {}
           THEN \E i \in mentioned : t = Some("Chat: " \o db.clients[i].name)
           ELSE IF preview \in {"", "Nueva conversacion"} THEN t = None
           ELSE t = Some(preview)

\* a turn with a new-client candidate whose user text names a client stored
\* before the turn
C10_Witness ==
    /\ last.op = "chat" /\ last.raised = ""
    /\ last.processed.new_clients # <<>>
    /\ \E k \in 1..Len(pre.clients) :
          Contains(Lower(last.user_message), Lower(pre.clients[k].name))
    /\ last.session_title = Some("Cliente: " \o last.processed.new_clients[1].name)

\* the words of the user text of the last turn
LastWords == Words(last.user_message)

\* no candidate and no stored client name supplies the title of the last turn
FallbackTurn ==
    /\ last.op = "chat" /\ last.raised = ""
    /\ last.processed.new_clients = <<>>
    /\ ~Named(last.processed.proposals)
    /\ ~Named(last.processed.client_messages)
    /\ ~Named(last.processed.services)
    /\ \A i \in 1..Len(db.clients) :
          ~Contains(Lower(last.user_message), Lower(db.clients[i].name))

\* C11: when no candidate and no stored client name supplies a title, the
\* title a turn returns is the first five whitespace-separated words of the
\* user text, joined by single spaces, followed by "..." exactly when the
\* user text has more than five words.
C11_EllipsisWhenTruncated ==
    (FallbackTurn /\ last.session_title # None) =>
        last.session_title[1] =
            IF Len(LastWords) > 5
            THEN JoinSp(SubSeq(LastWords, 1, 5)) \o "..."
            ELSE JoinSp(LastWords)

\* the stored title of session sid in the store d; a session that d does
\* not hold yet has the title it will be created with
TitleOf(d, sid) ==
    LET at == {i \in 1..Len(d.chat_sessions) : d.chat_sessions[i].id = sid}
    IN IF at = {} THEN UserDefault ELSE d.chat_sessions[CHOOSE i \in at : TRUE].title

\* the titles that are a prefix with an empty name after it
EmptyNameTitles == {"Cliente: ", "Propuesta: ", "Mensaje: ", "Servicio: ", "Chat: "}

\* C12: a returning turn has no title whenever no candidate and no stored
\* client gives a non-empty name and the user text has no word or its
\* fallback is the placeholder 'Nueva conversacion'; no turn has a title
\* built from an empty name; and a turn without a title leaves the stored
\* title of its session as it was.
C12_NoTitleFromNothing ==
    (last.op = "chat" /\ last.raised = "") =>
        /\ ( /\ ~Named([i \in 1..Len(last.processed.new_clients) |->
                          [client_name |-> last.processed.new_clients[i].name]])
             /\ ~Named(last.processed.proposals)
             /\ ~Named(last.processed.client_messages)
             /\ ~Named(last.processed.services)
             /\ \A i \in 1..Len(db.clients) :
                   \/ db.clients[i].name = ""
                   \/ ~Contains(Lower(last.user_message), Lower(db.clients[i].name))
             /\ (LastWords = <<>> \/ Preview(last.user_message) = UserDefault) )
           => last.session_title = None
        /\ last.session_title # None => last.session_title[1] \notin EmptyNameTitles
        /\ last.session_title = None =>
              TitleOf(db, last.session_id) = TitleOf(pre, last.session_id)

\* the reply of the last turn is one that an earlier turn stored
SeenBefore ==
    /\ last.op = "chat" /\ last.reply # None
    /\ \E i \in 1..Len(pre.conversation_memory) :
          /\ pre.conversation_memory[i].role = "assistant"
          /\ pre.conversation_memory[i].content = last.reply[1]

ClientsNamed(name) == {i \in 1..Len(db.clients) : db.clients[i].name = name}

\* turns a and b are two turns, each with a first new-client candidate, of
\* one name, and each has created a client
BothCreated(a, b) ==
    /\ a # b
    /\ turns[a].processed.new_clients # <<>>
    /\ turns[b].processed.new_clients # <<>>
    /\ turns[a].processed.new_clients[1].name = turns[b].processed.new_clients[1].name
    /\ turns[a].created_client_id # None
    /\ turns[b].created_client_id # None

\* C14: the lookup and the insert of a new-client candidate are two store
\* calls with nothing to hold them together: a turn that found no client
\* inserts one whatever has been stored since, so when two turns under way at
\* the same time carry a new-client candidate of one name and both have
\* created their client, the store holds two Client rows of that name, one
\* for each turn.
C14_CheckThenCreateNotAtomic ==
    \A a, b \in DOMAIN turns :
        BothCreated(a, b) =>
            /\ turns[a].created_client_id # turns[b].created_client_id
            /\ \A t \in {a, b} :
                  \E i \in ClientsNamed(turns[t].processed.new_clients[1].name) :
                      db.clients[i].id = turns[t].created_client_id[1]

\* both turns looked the name up before either stored it, and both stored it
C14_Witness ==
    /\ BothCreated(1, 2)
    /\ Cardinality(ClientsNamed(turns[1].processed.new_clients[1].name)) = 2

\* the stored proposals that carry the number n
ProposalsNumbered(n) == {i \in 1..Len(db.proposals) : db.proposals[i].proposal_number = n}

\* turns a and b are two turns that obtained one proposal number and have
\* both executed their INSERT
SameNumberInserted(a, b) ==
    /\ a # b
    /\ turns[a].number # None /\ turns[a].at # "insert"
    /\ turns[b].number # None /\ turns[b].at # "insert"
    /\ turns[a].number = turns[b].number

\* C15: two turns under way at the same time can count the same rows and
\* obtain the same proposal number, but the store never holds two proposals
\* of one number: proposal_number is UNIQUE, so of two turns that insert
\* with the same number exactly one stores its proposal and the other ends
\* with an IntegrityError.
C15_SameNumberSecondInsertRejected ==
    /\ \A i, j \in 1..Len(db.proposals) :
          i # j => db.proposals[i].proposal_number # db.proposals[j].proposal_number
    /\ \A a, b \in DOMAIN turns :
          SameNumberInserted(a, b) =>
              /\ Cardinality(ProposalsNumbered(turns[a].number[1])) = 1
              /\ (turns[a].raised = "IntegrityError") # (turns[b].raised = "IntegrityError")

\* both turns counted before either inserted; the second INSERT was rejected
C15_Witness ==
    /\ SameNumberInserted(1, 2)
    /\ turns[1].raised = ""
    /\ turns[2].raised = "IntegrityError"
    /\ Cardinality(ProposalsNumbered(turns[1].number[1])) = 1

\* C15, as stated: when two turns under way at the same time have inserted
\* with the same proposal number, the store holds two proposals of that
\* number.
C15_DuplicateNumbersStored ==
    \A a, b \in DOMAIN turns :
        SameNumberInserted(a, b) =>
            Cardinality(ProposalsNumbered(turns[a].number[1])) = 2

\* C16: in every state that proposal creations and deletions of one month
\* lead to, the number generate_proposal_number returns is carried by no
\* stored proposal, and no turn ends because create_proposal was refused its
\* number.
C16_ProposalNumberUnused ==
    /\ \A i \in 1..Len(db.proposals) :
          db.proposals[i].proposal_number # generate_proposal_number(db)
    /\ last.op = "chat" => last.raised # "IntegrityError"

\* the candidates of cands whose client no stored client of the store pre
\* matched and a client created by the last turn matches
OfNewClient(cands) ==
    LET fresh(x) == /\ Matching(pre.clients, x.client_name) = {}
                    /\ Matching(NewRows("clients"), x.client_name) # {}
    IN SelectSeq(cands, fresh)

\* the id of the client created by the last turn that name resolves to
NewClientId(name) == ResolvedClient(NewRows("clients"), name).id

\* C17: the new-client candidates of a reply are applied before its message,
\* service and proposal candidates: every such candidate that names a client
\* which only a NEW CLIENT block of the same reply introduced has its row
\* stored by the same turn, under the id of the client the turn created.
C17_NewClientsFirst ==
    Reconciled =>
        /\ \A k \in 1..Len(OfNewClient(last.processed.client_messages)) :
              \E i \in 1..Len(NewRows("client_messages")) :
                  /\ NewRows("client_messages")[i].client_id =
                        NewClientId(OfNewClient(last.processed.client_messages)[k].client_name)
                  /\ NewRows("client_messages")[i].content =
                        OfNewClient(last.processed.client_messages)[k].message
        /\ \A k \in 1..Len(OfNewClient(last.processed.services)) :
              \E i \in 1..Len(NewRows("services")) :
                  /\ NewRows("services")[i].client_id =
                        NewClientId(OfNewClient(last.processed.services)[k].client_name)
                  /\ NewRows("services")[i].description =
                        OfNewClient(last.processed.services)[k].description
        /\ last.raised = "" =>
              \A k \in 1..Len(OfNewClient(last.processed.proposals)) :
                  \E i \in 1..Len(NewRows("proposals")) :
                      /\ NewRows("proposals")[i].client_id =
                            NewClientId(OfNewClient(last.processed.proposals)[k].client_name)
                      /\ NewRows("proposals")[i].total =
                            OfNewClient(last.processed.proposals)[k].total

\* a reply that introduces a client and has a message, a service and a
\* proposal for it, on a store that did not hold the client
C17_Witness ==
    /\ last.op = "chat" /\ last.raised = ""
    /\ NewRows("clients") # <<>>
    /\ OfNewClient(last.processed.client_messages) # <<>>
    /\ OfNewClient(last.processed.services) # <<>>
    /\ OfNewClient(last.processed.proposals) # <<>>
    /\ \A i \in 1..Len(NewRows("proposals")) :
          NewRows("proposals")[i].client_id = NewRows("clients")[1].id

\* the lines `lines` are one per stored client, and a name heads as many of
\* them as there are clients that carry it
LinePerClient(lines) ==
    /\ Len(lines) = Len(db.clients)
    /\ \A i \in 1..Len(db.clients) :
          Cardinality({k \in 1..Len(lines) :
              StartsWithAt(lines[k], 1, "- " \o db.clients[i].name \o ": ")})
          = Cardinality(ClientsNamed(db.clients[i].name))

\* how often the text sub occurs in the text s
Occurrences(s, sub) == Cardinality({i \in 1..Len(s) : StartsWithAt(s, i, sub)})

ClientTables == {"services", "client_messages", "proposals", "invoices"}

\* the rows of table t of the store pre that do not belong to client c
RowsOfOthers(t, c) ==
    LET others(r) == r.client_id # c
    IN SelectSeq(pre[t], others)

\* C19: after delete_client the client is gone, no service, client message,
\* proposal or invoice row refers to its id, every chat session that was
\* linked to it has no client, and all else is as it was: the other clients,
\* their rows in these tables, the other sessions, the price book and the
\* conversation.
C19_DeleteClientCascade ==
    last.op = "delete_client" =>
        /\ get_client(db, last.client_id) = None
        /\ \A t \in ClientTables :
              /\ \A i \in 1..Len(db[t]) : db[t][i].client_id # last.client_id
              /\ db[t] = RowsOfOthers(t, last.client_id)
        /\ Len(db.clients) = Len(pre.clients) - 1
        /\ \A i \in 1..Len(db.clients) :
              \E j \in 1..Len(pre.clients) : db.clients[i] = pre.clients[j]
        /\ Len(db.chat_sessions) = Len(pre.chat_sessions)
        /\ \A i \in 1..Len(db.chat_sessions) :
              db.chat_sessions[i] =
                  IF pre.chat_sessions[i].client_id = Some(last.client_id)
                  THEN [pre.chat_sessions[i] EXCEPT !.client_id = None]
                  ELSE pre.chat_sessions[i]
        /\ db.price_book = pre.price_book
        /\ db.conversation_memory = pre.conversation_memory

\* the deleted client had a service, a message, a proposal, an invoice and a
\* linked session, and another client has a service
C19_Witness ==
    /\ last.op = "delete_client"
    /\ \A t \in ClientTables :
          \E i \in 1..Len(pre[t]) : pre[t][i].client_id = last.client_id
    /\ \E i \in 1..Len(pre.chat_sessions) :
          pre.chat_sessions[i].client_id = Some(last.client_id)
    /\ db.services # <<>>
    /\ db.clients # <<>>

\* the hour at which the issued token t expires
ExpiryOf(t) == auth.issued[t].created + SESSION_DURATION_HOURS

\* C20: get_session_user returns a user only for a token that
\* create_session issued, that no logout was called with and whose expiry,
\* one week after its creation, has not passed, and the user is the one the
\* token was issued to; after the lookup of a token whose expiry has passed
\* the session store does not hold it; and the session store holds no token
\* that logout was called with, so that such a token never authenticates
\* again.
C20_TokenValidity ==
    /\ (last.op = "get_session_user" /\ last.user # None) =>
          /\ last.token # None
          /\ last.token[1] \in DOMAIN auth.issued
          /\ last.token[1] \notin auth.revoked
          /\ auth.now <= ExpiryOf(last.token[1])
          /\ last.user[1].id = auth.issued[last.token[1]].user_id
    /\ (/\ last.op = "get_session_user" /\ last.token # None
         /\ last.token[1] \in DOMAIN auth.issued
         /\ auth.now > ExpiryOf(last.token[1])) =>
          last.token[1] \notin DOMAIN auth.sessions /\ last.user = None
    /\ \A t \in auth.revoked : t \notin DOMAIN auth.sessions

\* the lookup of a token whose week has passed, in a state where another
\* token was logged out before its expiry
C20_Witness ==
    /\ last.op = "get_session_user" /\ last.user = None /\ last.token # None
    /\ last.token[1] \in DOMAIN auth.issued
    /\ last.token[1] \notin auth.revoked
    /\ auth.now > ExpiryOf(last.token[1])
    /\ \E t \in auth.revoked : t \in DOMAIN auth.issued /\ auth.now <= ExpiryOf(t)

\* C21: every assistant reply is stored as a message of the session of the
\* turn it answers: the step of a turn that stores its reply appends a
\* message that carries the turn's own session_id, however the turns of
\* several sessions follow each other or interleave.
C21_ReplyInOwnSession ==
    [][\A t \in DOMAIN turns :
          (turns[t].pc = "model" /\ turns'[t].pc # "model") =>
             db'.conversation_memory[Len(db'.conversation_memory)].session_id
                = turns[t].session_id]_vars

\* the messages of the last turn's session when the model was called, the
\* user's message included, as role and content
SessionTurns ==
    LET mine(m) == m.session_id = last.session_id
                   /\ m.id <= pre.seq.conversation_memory + 1
        rows == SelectSeq(db.conversation_memory, mine)
    IN [i \in 1..Len(rows) |->
           [role |-> IF rows[i].role = "jaime" THEN "user" ELSE "assistant",
            content |-> rows[i].content]]

\* the last n elements of a sequence, or all of it
LastOf(seq, n) == SubSeq(seq, IF Len(seq) > n THEN Len(seq) - n + 1 ELSE 1, Len(seq))

\* C22: the history a turn passes to the model is the most recent messages
\* of its session, at most 20 of them and in the order they were stored,
\* and its last element is the user's current message with role user, for a
\* session of any length.
C22_HistoryIsMostRecent ==
    last.op = "chat" =>
        /\ last.messages = LastOf(SessionTurns, HistoryLimit)
        /\ last.messages[Len(last.messages)] =
              [role |-> "user", content |-> last.user_message]

\* the stored message of the last send request, before it and after it
MessageIn(d, message_id) ==
    LET hits(m) == m.id = message_id
    IN SelectSeq(d.client_messages, hits)[1]

\* the last request was a send request for a stored message
SendTried == last.op = "send_message" /\ last.result # None

\* a channel that the last send request tried has delivered the message
ChannelSucceeded ==
    \/ last.result[1].sms # None /\ last.result[1].sms[1].success
    \/ last.result[1].email # None /\ last.result[1].email[1].success

\* C23: after a send request for an outgoing message the message is sent,
\* with a sent timestamp, when a channel that was tried succeeded; otherwise
\* it is failed with a non-empty error detail and the request fails with a
\* server error.  The status of a message is always pending, sent or failed.
C23_StatusReflectsDelivery ==
    /\ \A i \in 1..Len(db.client_messages) :
          db.client_messages[i].status \in {"pending", "sent", "failed"}
    /\ SendTried =>
          \E m \in {MessageIn(db, last.message_id)} :
             IF ChannelSucceeded
             THEN /\ m.status = "sent"
                  /\ m.sent_at # None
                  /\ last.status_code = 200
             ELSE /\ m.status = "failed"
                  /\ m.error_message # None
                  /\ m.error_message[1] # ""
                  /\ last.status_code = 500
                  /\ last.detail = m.error_message[1]

\* a message is sent after a failed attempt, and another fails for a
\* client without a phone number
C23_Witness ==
    /\ SendTried
    /\ ChannelSucceeded
    /\ MessageIn(pre, last.message_id).status = "failed"
    /\ MessageIn(db, last.message_id).status = "sent"
    /\ \E i \in 1..Len(db.client_messages) :
          /\ db.client_messages[i].status = "failed"
          /\ db.client_messages[i].error_message = Some("SMS: No phone number for client")

\* C24: an outgoing message is delivered at most once: a send request for a
\* message whose status is sent delivers nothing and leaves the status as it
\* is.
C24_SentIsNotSentAgain ==
    (SendTried /\ MessageIn(pre, last.message_id).status = "sent") =>
        /\ ~ChannelSucceeded
        /\ MessageIn(db, last.message_id).status = "sent"

\* the requests that have stored their invoice
Invoiced == {t \in DOMAIN turns : turns[t].pc = "done" /\ turns[t].raised = ""}

\* C25: a service is bundled into at most one invoice: generate_invoice
\* bills the client's uninvoiced services and marks them with the id of the
\* new invoice, so no two invoices bill the same service, also when two
\* generate_invoice calls for one client interleave.
C25_BilledOnce ==
    /\ \A a \in Invoiced, b \in Invoiced :
          a # b => turns[a].services \cap turns[b].services = {}
    /\ \A a \in Invoiced, i \in 1..Len(db.services) :
          db.services[i].id \in turns[a].services =>
             /\ db.services[i].invoiced
             /\ db.services[i].invoice_id = turns[a].invoice_id


ProposalStatuses == {"draft", "sent", "accepted", "declined"}

\* the gateway took the email
Accepted(sendgrid) == sendgrid.available /\ sendgrid.configured /\ sendgrid.answer = None

\* C26: the status of every stored proposal is draft, sent, accepted or
\* declined; a proposal is draft when it is created; a status becomes sent
\* only in a send_proposal of that proposal whose email the gateway took and
\* whose client has an email address; a send_proposal that failed leaves
\* every status as it was; a status becomes accepted only in a
\* generate_invoice_from_proposal of that proposal.
C26_ProposalStatusLifecycle ==
    [][\A i \in 1..Len(db'.proposals) :
          LET p == db'.proposals[i]
              old == get_proposal(db, p.id)
              client == get_client(db, p.client_id)
          IN /\ p.status \in ProposalStatuses
             /\ old = None => p.status = "draft"
             /\ (old # None /\ old[1].status # p.status /\ p.status = "sent")
                   => /\ last'.op = "send_proposal"
                      /\ last'.proposal_id = p.id
                      /\ Accepted(last'.sendgrid)
                      /\ client # None /\ client[1].email # None
             /\ (last'.op = "send_proposal" /\ last'.status_code # 200)
                   => old # None /\ old[1].status = p.status
             /\ (old # None /\ old[1].status # p.status /\ p.status = "accepted")
                   => /\ last'.op = "create_invoice_from_proposal"
                      /\ last'.proposal_id = p.id
             /\ (old # None /\ old[1].status # p.status)
                   => p.status \in {"sent", "accepted"}]_vars

\* a send that failed for a draft proposal, next to a proposal that was
\* sent and one that was accepted before
C26_Witness ==
    /\ last.op = "send_proposal"
    /\ last.status_code = 500
    /\ get_proposal(db, last.proposal_id) # None
    /\ \E i, j \in 1..Len(db.proposals) :
          /\ db.proposals[i].status = "sent"
          /\ db.proposals[j].status = "accepted"

\* C27: an invoice is generated from a proposal only when the proposal's
\* status is accepted or sent.
C27_OnlySentOrAccepted ==
    (last.op = "create_invoice_from_proposal" /\ last.raised = "")
        => get_proposal(pre, last.proposal_id)[1].status \in {"accepted", "sent"}


\* the number the request of last obtained from generate_invoice_number
NumberObtained == generate_invoice_number(pre)

\* C28: a generate_invoice or generate_invoice_from_proposal for a stored
\* client obtains a number that no stored invoice carries, stores its
\* invoice, and leaves the PDF of every invoice that was stored before as it
\* was.
C28_NumberIsUnused ==
    (/\ last.op \in {"create_invoice", "create_invoice_from_proposal"}
     /\ last.raised # "ValueError")
        => /\ \A i \in 1..Len(pre.invoices) :
                 /\ pre.invoices[i].invoice_number # NumberObtained
                 /\ db.pdfs[pre.invoices[i].invoice_number]
                        = pre.pdfs[pre.invoices[i].invoice_number]
           /\ last.raised = ""
           /\ Len(db.invoices) = Len(pre.invoices) + 1

\* C30: every service marked invoiced names an invoice that is stored.
C30_InvoicedHasInvoice ==
    \A i \in 1..Len(db.services) :
        db.services[i].invoiced
            => /\ db.services[i].invoice_id # None
               /\ get_invoice(db, db.services[i].invoice_id[1]) # None


\* the entries of the price book that a lookup of the description matches
MatchingEntries(d, description) ==
    {i \in 1..Len(d.price_book) : LikeContains(d.price_book[i].service_type, description)}

\* C29: right after set_price(d, p) has registered a price, get_price and
\* get_suggested_price of d give p, whatever the price book held before.
C29_ReadYourWrite ==
    last.op = "add_service"
        => /\ \E found \in {get_price(db, last.description)} :
                 found # None /\ found[1].default_price = last.price
           /\ get_suggested_price(db, last.description) = Some(last.price)

\* a registration whose description matches several entries, the first of
\* which held another price
C29_Witness ==
    /\ last.op = "add_service"
    /\ Cardinality(MatchingEntries(db, last.description)) >= 2
    /\ get_price(pre, last.description) # None
    /\ get_price(pre, last.description)[1].default_price # last.price
    /\ get_suggested_price(db, last.description) = Some(last.price)

====
